---- MODULE Spec2Model ----
(***************************************************************************)
(* A model of the python3-amazon-mws client library.                       *)
(*                                                                         *)
(*   - the asynchronous job pollers: RequestReportResponse.wait /          *)
(*     wait_and_download (parsers/reports/requestreport.py) and            *)
(*     BaseFeed.upload (generators/feeds.py);                              *)
(*   - the response handling of MWS.make_request (_mws.py).                *)
(*                                                                         *)
(* Python's None is the string "None", the empty string is "".  A text     *)
(* handed to a parser or a digest carries its Python type (str or bytes),  *)
(* because the library calls that receive it accept only one of the two.   *)
(***************************************************************************)
EXTENDS Integers, Sequences, FiniteSets, TLC

(***************************************************************************)
(* Bounds of the model.                                                    *)
(***************************************************************************)
\* Largest number of status records the service hands to one poller run.
MaxPolls == 3

(***************************************************************************)
(* Values.                                                                 *)
(***************************************************************************)
None == "None"

\* requestreport.py:285, feeds.py:55 : the success sentinel.
DONE == "_DONE_"

\* Service-defined processing statuses seen by the pollers.
Statuses == {"_DONE_", "_CANCELLED_", "_IN_PROGRESS_"}

\* ReportRequestId / FeedSubmissionId values handed out by a submit call.
JobIds == {"j1", "j2"}

\* GeneratedReportId of a ReportRequestInfo record: absent (None) or an id.
GenIds == {"None", "g1", "g2"}

\* Payloads GetReport can deliver.
Payloads == {"p1", "p2"}

\* Exceptions a remote call can end with instead of returning.
RemoteErrors == {"ErrorResponse", "MWSError", "TypeError"}

\* One record of a status list: ReportRequestInfo (completed_date,
\* report_processing_status, generated_report_id) or FeedSubmissionInfo
\* (_completed_processing_date, feed_processing_status; id is None).
ReportRecords == [completed : BOOLEAN, status : Statuses, id : GenIds]
FeedRecords   == [completed : BOOLEAN, status : Statuses, id : {None}]

(***************************************************************************)
(* State of the pollers.                                                   *)
(***************************************************************************)
VARIABLES
    op,                 \* the method running: "none", "wait", "wait_and_download", "upload"
    pc,                 \* position inside that method
    job,                \* self.report_request_id / response.feed_submission_id
    done,               \* local `done`
    status,             \* local `status`
    report_id,          \* local `report_id` of wait()
    feed_submission_id, \* local `feed_submission_id` of upload()
    self_report_id,     \* self.report_id of the RequestReportResponse
    contents,           \* local `contents` of wait_and_download()
    outcome,            \* how the method ended: return value or exception
    polls,              \* history: the records the status queries returned
    calls,              \* history: the remote calls issued, in order
    ack,                \* history: how the acknowledgement call ended ("" = not issued)
    sleeps              \* history: number of time.sleep(60) calls

pollvars == <<op, pc, job, done, status, report_id, feed_submission_id,
              self_report_id, contents, outcome, polls, calls, ack, sleeps>>

\* State of MWS.make_request's response handling and of DataWrapper.
VARIABLES
    mr_called,   \* make_request has been called
    mr_action,   \* extra_data holds an Action after remove_empty
    mr_response, \* the HTTP response the call received
    mr_sent,     \* number of HTTP requests the call issued
    mr_steps,    \* history: the steps of the call after the request, in order
    mr_outcome,  \* how the call ended
    dw_called,   \* DataWrapper(data, header) has been constructed
    dw_data,     \* its data argument
    dw_header,   \* the content-md5 entry of its header argument
    dw_outcome,  \* how the construction ended
    client,      \* the client object (self) the requests are made on
    init_called, \* a constructor call was made after the initial one
    init_args,   \* the arguments of the latest constructor call
    init_raised, \* the exception that call raised (None when it returned)
    mr_extra,    \* extra_data as make_request received it
    mr_cleaned,  \* extra_data after remove_empty (line 180)
    mr_method,   \* method
    mr_params,   \* params after params.update(extra_data)
    mr_description, \* request_description (empty when the encoding raised)
    mr_signed,   \* history: the string calc_signature signed
    mr_url       \* history: the URL handed to requests.request

reqvars == <<mr_called, mr_action, mr_response, mr_sent, mr_steps, mr_outcome,
             dw_called, dw_data, dw_header, dw_outcome,
             client, init_called, init_args, init_raised,
             mr_extra, mr_cleaned, mr_method, mr_params, mr_description,
                   mr_signed, mr_url>>

\* State of the calls of the parameter helpers (enumerate_param, fmt_bool,
\* flattened, ...): one call and its result.
VARIABLES
    fn,          \* the helper called ("none" before the call)
    fn_args,     \* its arguments
    fn_result    \* what it returned, or the exception it raised

fnvars == <<fn, fn_args, fn_result>>

\* State of the structured request records of the outbound-shipment API.
VARIABLES
    fulfillment_order,  \* the items of a CreateFulfillmentOrder
    address,     \* the items of an Address
    item,        \* the items of a CreateFulfillmentOrderItem
    set_last     \* history: the latest setter call and how it ended

ordvars == <<fulfillment_order, address, item, set_last>>

\* Two RequestReportResponse objects, each polled by a thread of its own.
VARIABLES
    instances,   \* per object: the state of the method running on it
    served       \* per report request id: the record the service last returned for it

instvars == <<instances, served>>

NoOutcome == [kind |-> "none", exc |-> None, job |-> None, status |-> None, value |-> None]

Returned(v) == [kind |-> "return", exc |-> None, job |-> None, status |-> None, value |-> v]

\* An exception that escapes the method.
Raised(e) == [kind |-> "raise", exc |-> e, job |-> None, status |-> None, value |-> None]

\* requestreport.py:286, feeds.py:56 : ValueError("... for <id>=%s returned %s" % (id, status))
JobFailure(j, s) == [kind |-> "raise", exc |-> "ValueError", job |-> j, status |-> s, value |-> None]

PollInit ==
    /\ op = "none"
    /\ pc = "idle"
    /\ job = None
    /\ done = FALSE
    /\ status = ""
    /\ report_id = None
    /\ feed_submission_id = None
    /\ self_report_id = ""
    /\ contents = None
    /\ outcome = NoOutcome
    /\ polls = << >>
    /\ calls = << >>
    /\ ack = ""
    /\ sleeps = 0

(***************************************************************************)
(* RequestReportResponse.wait                                              *)
(***************************************************************************)
\* Mutant: a cancelled job ends the loop although it has no completion date.
wait_done_cancelled(rec) == rec.completed \/ rec.status = "_CANCELLED_"

\* Mutant: the loop only ends on success.
wait_done_success_only(rec) == rec.completed /\ rec.status = DONE

\* requestreport.py:283  done = bool(request_result.completed_date)
wait_done(rec) == rec.completed

\* Mutant: the first generated id seen is kept.
wait_report_id_first(prev, rec) == IF prev = None THEN rec.id ELSE prev

\* requestreport.py:284  report_id = request_result.generated_report_id
wait_report_id(prev, rec) == rec.id

\* Mutant: only a cancelled job counts as failed.
wait_result_cancelled_only(j, s, rid) ==
    IF s = "_CANCELLED_" THEN JobFailure(j, s) ELSE Returned(rid)

\* requestreport.py:285-287  the code after the loop.
wait_result(j, s, rid) == IF s # DONE THEN JobFailure(j, s) ELSE Returned(rid)

\* A RequestReportResponse built from a submit response (request / __init__),
\* on which wait() or wait_and_download() is entered: lines 198-205, 274-276, 311.
call_wait(j, o) ==
    /\ pc = "idle"
    /\ o \in {"wait", "wait_and_download"}
    /\ op' = o
    /\ job' = j
    /\ self_report_id' = ""
    /\ done' = FALSE
    /\ status' = ""
    /\ report_id' = None
    /\ pc' = "w_loop"
    /\ UNCHANGED <<feed_submission_id, contents, outcome, polls, calls, sleeps, ack>>
    /\ UNCHANGED <<reqvars, fnvars, ordvars, instvars>>

\* requestreport.py:277-278  `while not done:` then time.sleep(60).
wait_sleep ==
    /\ pc = "w_loop"
    /\ ~done
    /\ Len(polls) < MaxPolls
    /\ sleeps' = sleeps + 1
    /\ pc' = "w_poll"
    /\ UNCHANGED <<op, job, done, status, report_id, feed_submission_id,
                   self_report_id, contents, outcome, polls, calls, ack>>
    /\ UNCHANGED <<reqvars, fnvars, ordvars, instvars>>

\* requestreport.py:279-284  the status query returned a list whose first record is rec.
wait_poll(rec) ==
    /\ pc = "w_poll"
    /\ calls' = Append(calls, <<"GetReportRequestList", job>>)
    /\ polls' = Append(polls, rec)
    /\ status' = rec.status
    /\ done' = wait_done(rec)
    /\ report_id' = wait_report_id(report_id, rec)
    /\ pc' = "w_loop"
    /\ UNCHANGED <<op, job, feed_submission_id, self_report_id, contents, outcome, sleeps, ack>>
    /\ UNCHANGED <<reqvars, fnvars, ordvars, instvars>>

\* requestreport.py:279-280  the status query raised (GetReportRequestList.request
\* lines 122-124, or make_request), or the list was empty (IndexError).
wait_poll_raises(e) ==
    /\ pc = "w_poll"
    /\ calls' = Append(calls, <<"GetReportRequestList", job>>)
    /\ outcome' = Raised(e)
    /\ pc' = "end"
    /\ UNCHANGED <<op, job, done, status, report_id, feed_submission_id,
                   self_report_id, contents, polls, sleeps, ack>>
    /\ UNCHANGED <<reqvars, fnvars, ordvars, instvars>>

\* requestreport.py:277, 285-287 and, for wait_and_download, line 312.
wait_exit ==
    /\ pc = "w_loop"
    /\ done
    /\ LET r == wait_result(job, status, report_id) IN
         IF r.kind = "raise" \/ op = "wait"
         THEN /\ outcome' = r
              /\ pc' = "end"
              /\ UNCHANGED self_report_id
         ELSE /\ self_report_id' = r.value
              /\ pc' = "w_download"
              /\ UNCHANGED outcome
    /\ UNCHANGED <<op, job, done, status, report_id, feed_submission_id,
                   contents, polls, calls, sleeps, ack>>
    /\ UNCHANGED <<reqvars, fnvars, ordvars, instvars>>

(***************************************************************************)
(* RequestReportResponse.wait_and_download, after wait() returned          *)
(***************************************************************************)
\* Mutant: the report is fetched before self.report_id was assigned.
get_report_call_unassigned(rid) == <<"GetReport", "">>

\* requestreport.py:294-295  api.get_report(self.report_id)
get_report_call(rid) == <<"GetReport", rid>>

\* requestreport.py:303-304  api.update_report_acknowledgements(report_ids=(self.report_id,), ...)
acknowledge_call(rid) == <<"UpdateReportAcknowledgements", rid>>

\* requestreport.py:314, 289-296  contents = self.report_contents()
report_contents(p) ==
    /\ pc = "w_download"
    /\ calls' = Append(calls, get_report_call(self_report_id))
    /\ contents' = p
    /\ pc' = "w_ack"
    /\ UNCHANGED <<op, job, done, status, report_id, feed_submission_id,
                   self_report_id, outcome, polls, sleeps, ack>>
    /\ UNCHANGED <<reqvars, fnvars, ordvars, instvars>>

\* requestreport.py:314  api.get_report raised: the exception leaves wait_and_download.
report_contents_raises(e) ==
    /\ pc = "w_download"
    /\ calls' = Append(calls, get_report_call(self_report_id))
    /\ outcome' = Raised(e)
    /\ pc' = "end"
    /\ UNCHANGED <<op, job, done, status, report_id, feed_submission_id,
                   self_report_id, contents, polls, sleeps, ack>>
    /\ UNCHANGED <<reqvars, fnvars, ordvars, instvars>>

\* Mutant: a failed acknowledgement is swallowed.
acknowledge_result_swallowed(e, c) == Returned(c)

\* requestreport.py:316-317  what wait_and_download ends with when
\* self._acknowledge_report() returned (e = None) or raised e; c is `contents`.
acknowledge_result(e, c) == IF e = None THEN Returned(c) ELSE Raised(e)

\* requestreport.py:316-317, 298-304  self._acknowledge_report(); return contents
acknowledge_report(e) ==
    /\ pc = "w_ack"
    /\ calls' = Append(calls, acknowledge_call(self_report_id))
    /\ ack' = e
    /\ outcome' = acknowledge_result(e, contents)
    /\ pc' = "end"
    /\ UNCHANGED <<op, job, done, status, report_id, feed_submission_id,
                   self_report_id, contents, polls, sleeps>>
    /\ UNCHANGED <<reqvars, fnvars, ordvars, instvars>>

(***************************************************************************)
(* BaseFeed.upload                                                         *)
(***************************************************************************)
\* Mutant: the loop of upload only ends on success.
upload_done_success_only(rec) == rec.completed /\ rec.status = DONE

\* feeds.py:54  done = bool(request_result._completed_processing_date)
upload_done(rec) == rec.completed

\* feeds.py:55-56  the code after the loop; upload returns nothing on success.
upload_result(j, s) == IF s # DONE THEN JobFailure(j, s) ELSE Returned(None)

\* Mutant: the status query names no submission, so it is not filtered.
feed_submission_list_call_unfiltered(fsid) == <<"GetFeedSubmissionList", None>>

\* feeds.py:50  GetFeedSubmissionListResponse.request(..., (feed_submission_id,))
feed_submission_list_call(fsid) == <<"GetFeedSubmissionList", fsid>>

\* feeds.py:42  upload() is entered.
call_upload ==
    /\ pc = "idle"
    /\ op' = "upload"
    /\ pc' = "u_submit"
    /\ UNCHANGED <<job, done, status, report_id, feed_submission_id,
                   self_report_id, contents, outcome, polls, calls, sleeps, ack>>
    /\ UNCHANGED <<reqvars, fnvars, ordvars, instvars>>

\* feeds.py:43-46  SubmitFeedResponse.request returned a response whose
\* feed_submission_id is j.
upload_submit(j) ==
    /\ pc = "u_submit"
    /\ calls' = Append(calls, <<"SubmitFeed", None>>)
    /\ job' = j
    /\ done' = FALSE
    /\ status' = ""
    /\ feed_submission_id' = None
    /\ pc' = "u_loop"
    /\ UNCHANGED <<op, report_id, self_report_id, contents, outcome, polls, sleeps, ack>>
    /\ UNCHANGED <<reqvars, fnvars, ordvars, instvars>>

\* feeds.py:43  SubmitFeedResponse.request raised (submitfeedresponse.py:100-102).
upload_submit_raises(e) ==
    /\ pc = "u_submit"
    /\ calls' = Append(calls, <<"SubmitFeed", None>>)
    /\ outcome' = Raised(e)
    /\ pc' = "end"
    /\ UNCHANGED <<op, job, done, status, report_id, feed_submission_id,
                   self_report_id, contents, polls, sleeps, ack>>
    /\ UNCHANGED <<reqvars, fnvars, ordvars, instvars>>

\* feeds.py:47-49  `while not done:`, feed_submission_id = response.feed_submission_id,
\* time.sleep(60).
upload_sleep ==
    /\ pc = "u_loop"
    /\ ~done
    /\ Len(polls) < MaxPolls
    /\ feed_submission_id' = job
    /\ sleeps' = sleeps + 1
    /\ pc' = "u_poll"
    /\ UNCHANGED <<op, job, done, status, report_id, self_report_id,
                   contents, outcome, polls, calls, ack>>
    /\ UNCHANGED <<reqvars, fnvars, ordvars, instvars>>

\* feeds.py:50-54  the status query returned a list whose first record is rec.
upload_poll(rec) ==
    /\ pc = "u_poll"
    /\ calls' = Append(calls, feed_submission_list_call(feed_submission_id))
    /\ polls' = Append(polls, rec)
    /\ status' = rec.status
    /\ done' = upload_done(rec)
    /\ pc' = "u_loop"
    /\ UNCHANGED <<op, job, report_id, feed_submission_id, self_report_id,
                   contents, outcome, sleeps, ack>>
    /\ UNCHANGED <<reqvars, fnvars, ordvars, instvars>>

\* feeds.py:50-51  the status query raised, or the list was empty (IndexError).
upload_poll_raises(e) ==
    /\ pc = "u_poll"
    /\ calls' = Append(calls, feed_submission_list_call(feed_submission_id))
    /\ outcome' = Raised(e)
    /\ pc' = "end"
    /\ UNCHANGED <<op, job, done, status, report_id, feed_submission_id,
                   self_report_id, contents, polls, sleeps, ack>>
    /\ UNCHANGED <<reqvars, fnvars, ordvars, instvars>>

\* feeds.py:47, 55-56
upload_exit ==
    /\ pc = "u_loop"
    /\ done
    /\ outcome' = upload_result(feed_submission_id, status)
    /\ pc' = "end"
    /\ UNCHANGED <<op, job, done, status, report_id, feed_submission_id,
                   self_report_id, contents, polls, calls, sleeps, ack>>
    /\ UNCHANGED <<reqvars, fnvars, ordvars, instvars>>

(***************************************************************************)
(* The pollers' specification.                                             *)
(***************************************************************************)
PollerStep ==
    \/ wait_sleep
    \/ \E rec \in ReportRecords : wait_poll(rec)
    \/ \E e \in RemoteErrors \cup {"IndexError"} : wait_poll_raises(e)
    \/ wait_exit
    \/ \E p \in Payloads : report_contents(p)
    \/ \E e \in RemoteErrors : report_contents_raises(e)
    \/ \E e \in RemoteErrors \cup {None} : acknowledge_report(e)
    \/ \E j \in JobIds : upload_submit(j)
    \/ \E e \in RemoteErrors : upload_submit_raises(e)
    \/ upload_sleep
    \/ \E rec \in FeedRecords : upload_poll(rec)
    \/ \E e \in RemoteErrors \cup {"IndexError"} : upload_poll_raises(e)
    \/ upload_exit

PollNext ==
    \/ \E j \in JobIds, o \in {"wait", "wait_and_download"} : call_wait(j, o)
    \/ call_upload
    \/ PollerStep

(***************************************************************************)
(* Two RequestReportResponse objects polled at the same time: the locals   *)
(* and attributes of wait / wait_and_download, once per object.            *)
(***************************************************************************)
InstanceIds == {"a", "b"}

\* The report the service generates for a report request.
GeneratedReportId(j) == IF j = "j1" THEN "g1" ELSE "g2"

\* The contents of a generated report.
ReportPayload(rid) == IF rid = "g1" THEN "p1" ELSE "p2"

\* The records the service returns for a status query filtered by the
\* report request id q: those of that request.
RecordsOf(q) == {rec \in ReportRecords : rec.id \in {None, GeneratedReportId(q)}}

\* No record was returned yet.
NoRecord == [completed |-> FALSE, status |-> "", id |-> None]

InstInit ==
    /\ instances = [i \in InstanceIds |->
                      [op |-> "none", pc |-> "idle", job |-> None, done |-> FALSE,
                       status |-> "", report_id |-> None, self_report_id |-> "",
                       contents |-> None, outcome |-> NoOutcome, npolls |-> 0,
                       queried |-> {}, fetched |-> {}]]
    /\ served = [j \in JobIds |-> NoRecord]

\* Mutant: the id of the status query is kept in one place for all objects.
instance_query_id_shared(i) ==
    IF instances["a"].job = None THEN instances[i].job ELSE instances["a"].job

\* requestreport.py:279  report_request_ids=(self.report_request_id,)
instance_query_id(i) == instances[i].job

\* requestreport.py:198-205, 274-276, 311  wait() or wait_and_download() is
\* entered on an object built from the submit response of request j.
instance_call_wait(i, j, o) ==
    /\ instances[i].pc = "idle"
    /\ \A k \in InstanceIds \ {i} : instances[k].job # j
    /\ instances' = [instances EXCEPT ![i] =
                        [@ EXCEPT !.op = o, !.job = j, !.pc = "w_loop"]]
    /\ UNCHANGED served
    /\ UNCHANGED <<pollvars, reqvars, fnvars, ordvars>>

\* requestreport.py:277-278  `while not done:` then time.sleep(60).
instance_wait_sleep(i) ==
    /\ instances[i].pc = "w_loop"
    /\ ~instances[i].done
    /\ instances[i].npolls < MaxPolls
    /\ instances' = [instances EXCEPT ![i].pc = "w_poll"]
    /\ UNCHANGED served
    /\ UNCHANGED <<pollvars, reqvars, fnvars, ordvars>>

\* requestreport.py:279-284  the status query returned a list whose first record is rec.
instance_wait_poll(i, rec) ==
    /\ instances[i].pc = "w_poll"
    /\ rec \in RecordsOf(instance_query_id(i))
    /\ instances' = [instances EXCEPT ![i] =
                        [@ EXCEPT !.status = rec.status,
                                  !.done = wait_done(rec),
                                  !.report_id = wait_report_id(@, rec),
                                  !.npolls = @ + 1,
                                  !.queried = @ \cup {instance_query_id(i)},
                                  !.pc = "w_loop"]]
    /\ served' = [served EXCEPT ![instance_query_id(i)] = rec]
    /\ UNCHANGED <<pollvars, reqvars, fnvars, ordvars>>

\* requestreport.py:279-280  the status query raised, or the list was empty.
instance_wait_poll_raises(i, e) ==
    /\ instances[i].pc = "w_poll"
    /\ instances' = [instances EXCEPT ![i] =
                        [@ EXCEPT !.queried = @ \cup {instance_query_id(i)},
                                  !.outcome = Raised(e),
                                  !.pc = "end"]]
    /\ UNCHANGED served
    /\ UNCHANGED <<pollvars, reqvars, fnvars, ordvars>>

\* requestreport.py:277, 285-287 and, for wait_and_download, line 312.
instance_wait_exit(i) ==
    /\ instances[i].pc = "w_loop"
    /\ instances[i].done
    /\ LET s == instances[i]
           r == wait_result(s.job, s.status, s.report_id) IN
         instances' = [instances EXCEPT ![i] =
                          IF r.kind = "raise" \/ s.op = "wait"
                          THEN [s EXCEPT !.outcome = r, !.pc = "end"]
                          ELSE [s EXCEPT !.self_report_id = r.value, !.pc = "w_download"]]
    /\ UNCHANGED served
    /\ UNCHANGED <<pollvars, reqvars, fnvars, ordvars>>

\* requestreport.py:314, 289-296  contents = self.report_contents(): the
\* service returns the report named in the call, or an error when the call
\* names none.
instance_report_contents(i) ==
    /\ instances[i].pc = "w_download"
    /\ LET s == instances[i]
           rid == get_report_call(s.self_report_id)[2] IN
         instances' = [instances EXCEPT ![i] =
                          IF rid \in {None, ""}
                          THEN [s EXCEPT !.outcome = Raised("ErrorResponse"), !.pc = "end"]
                          ELSE [s EXCEPT !.fetched = @ \cup {rid},
                                         !.contents = ReportPayload(rid),
                                         !.pc = "w_ack"]]
    /\ UNCHANGED served
    /\ UNCHANGED <<pollvars, reqvars, fnvars, ordvars>>

\* requestreport.py:316-317, 298-304  self._acknowledge_report(); return contents
instance_acknowledge_report(i, e) ==
    /\ instances[i].pc = "w_ack"
    /\ instances' = [instances EXCEPT ![i] =
                        [@ EXCEPT !.outcome = acknowledge_result(e, instances[i].contents),
                                  !.pc = "end"]]
    /\ UNCHANGED served
    /\ UNCHANGED <<pollvars, reqvars, fnvars, ordvars>>

InstNext ==
    \E i \in InstanceIds :
        \/ \E j \in JobIds, o \in {"wait", "wait_and_download"} : instance_call_wait(i, j, o)
        \/ instance_wait_sleep(i)
        \/ \E rec \in ReportRecords : instance_wait_poll(i, rec)
        \/ \E e \in RemoteErrors \cup {"IndexError"} : instance_wait_poll_raises(i, e)
        \/ instance_wait_exit(i)
        \/ instance_report_contents(i)
        \/ \E e \in {None, "MWSError"} : instance_acknowledge_report(i, e)

(***************************************************************************)
(* Python text, as the request builder handles it: a str is the sequence   *)
(* of its characters.                                                      *)
(***************************************************************************)
\* The printable ASCII characters, code points 32..126 in order (code point
\* 96, the grave accent, is written "grave").
Ascii == <<
    " ", "!", "\"", "#", "$", "%", "&", "'", "(", ")", "*", "+", ",", "-", ".", "/",
    "0", "1", "2", "3", "4", "5", "6", "7", "8", "9", ":", ";", "<", "=", ">", "?",
    "@", "A", "B", "C", "D", "E", "F", "G", "H", "I", "J", "K", "L", "M", "N", "O",
    "P", "Q", "R", "S", "T", "U", "V", "W", "X", "Y", "Z", "[", "\\", "]", "^", "_",
    "grave", "a", "b", "c", "d", "e", "f", "g", "h", "i", "j", "k", "l", "m", "n", "o",
    "p", "q", "r", "s", "t", "u", "v", "w", "x", "y", "z", "{", "|", "}", "~"
>>

AsciiChars == {Ascii[i] : i \in 1..Len(Ascii)}

\* The code point of each printable ASCII character.
AsciiCode == [c \in AsciiChars |-> 31 + CHOOSE i \in 1..Len(Ascii) : Ascii[i] = c]

\* ord(c) for a printable ASCII character or the newline.
ord(c) == IF c = "\n" THEN 10 ELSE AsciiCode[c]

\* chr(n) for 32..126.
chr(n) == Ascii[n - 31]

\* str.lower() on each printable ASCII character: A..Z go to a..z.
LowerCase ==
    [c \in AsciiChars |-> IF AsciiCode[c] >= 65 /\ AsciiCode[c] <= 90
                          THEN chr(AsciiCode[c] + 32) ELSE c]

lower_char(c) == IF c \in AsciiChars THEN LowerCase[c] ELSE c

\* str.lower()
lower(s) == [i \in 1..Len(s) |-> lower_char(s[i])]

\* s starts with the characters of p at position i.
startswith_at(s, p, i) ==
    /\ i + Len(p) - 1 <= Len(s)
    /\ \A j \in 1..Len(p) : s[i + j - 1] = p[j]

\* str.endswith(p)
endswith(s, p) == Len(p) <= Len(s) /\ startswith_at(s, p, Len(s) - Len(p) + 1)

RECURSIVE replace_from(_, _, _)
replace_from(s, old, i) ==
    IF i > Len(s) THEN << >>
    ELSE IF startswith_at(s, old, i) THEN replace_from(s, old, i + Len(old))
    ELSE <<s[i]>> \o replace_from(s, old, i + 1)

\* s.replace(old, ''): every occurrence of the non-empty old, matched case-sensitively
\* from the left, is removed.
replace(s, old) == replace_from(s, old, 1)

\* a < b for two str, as Python compares them: by code point, a proper prefix first.
RECURSIVE str_less_from(_, _, _)
str_less_from(a, b, i) ==
    IF i > Len(a) THEN i <= Len(b)
    ELSE IF i > Len(b) THEN FALSE
    ELSE IF ord(a[i]) < ord(b[i]) THEN TRUE
    ELSE IF ord(a[i]) > ord(b[i]) THEN FALSE
    ELSE str_less_from(a, b, i + 1)

str_less(a, b) == str_less_from(a, b, 1)

\* sep.join(parts) for a sequence of str.
RECURSIVE join(_, _)
join(sep, parts) ==
    IF Len(parts) = 0 THEN << >>
    ELSE IF Len(parts) = 1 THEN parts[1]
    ELSE parts[1] \o sep \o join(sep, Tail(parts))

HexDigits == <<"0", "1", "2", "3", "4", "5", "6", "7", "8", "9", "A", "B", "C", "D", "E", "F">>

\* urllib.parse.quote: the characters never escaped (letters, digits, _.-~).
AlwaysSafe ==
    {c \in AsciiChars : \/ AsciiCode[c] >= 48 /\ AsciiCode[c] <= 57
                        \/ AsciiCode[c] >= 65 /\ AsciiCode[c] <= 90
                        \/ AsciiCode[c] >= 97 /\ AsciiCode[c] <= 122
                        \/ c \in {"_", ".", "-", "~"}}

\* The escape %XX of each printable ASCII character: its code in two upper-case
\* hexadecimal digits.
PercentEscape ==
    [c \in AsciiChars |-> <<"%", HexDigits[(AsciiCode[c] \div 16) + 1],
                                 HexDigits[(AsciiCode[c] % 16) + 1]>>]

\* urllib.parse.quote on one character: itself when safe, else its escape.
quote_char(c, safe) ==
    IF c \in AlwaysSafe \/ c \in safe THEN <<c>> ELSE PercentEscape[c]

\* The escapes of the characters of s, concatenated.
RECURSIVE quote_chars(_, _)
quote_chars(s, safe) ==
    IF Len(s) = 0 THEN << >>
    ELSE IF Len(s) = 1 THEN quote_char(s[1], safe)
    ELSE LET h == Len(s) \div 2 IN
         quote_chars(SubSeq(s, 1, h), safe) \o quote_chars(SubSeq(s, h + 1, Len(s)), safe)

(***************************************************************************)
(* Python values, as far as the request builder tells them apart: the      *)
(* type, the text str() gives, and the items of a list or of a mapping.    *)
(***************************************************************************)
PyVal(t, s, items) == [t |-> t, s |-> s, items |-> items]

Str(s) == PyVal("str", s, << >>)

Bytes(s) == PyVal("bytes", s, << >>)

PyNone == PyVal("NoneType", <<"N", "o", "n", "e">>, << >>)

PyTrue == PyVal("bool", <<"T", "r", "u", "e">>, << >>)

PyFalse == PyVal("bool", <<"F", "a", "l", "s", "e">>, << >>)

\* An int or a float, by its decimal text.
PyInt(s) == PyVal("int", s, << >>)

PyFloat(s) == PyVal("float", s, << >>)

\* A datetime.datetime, by the text strftime('%Y-%m-%dT%H:%M:%SZ') gives.
Datetime(s) == PyVal("datetime", s, << >>)

\* A list / a tuple of values.
List(items) == PyVal("list", << >>, items)

Tuple(items) == PyVal("tuple", << >>, items)

\* A dict (insertion-ordered): its items are <<key, value>> pairs with distinct keys.
Dict(cls, items) == PyVal(cls, << >>, items)

\* An exception raised instead of a value.
PyRaise(e) == PyVal(e, << >>, << >>)

PyExceptions == {"TypeError", "ValueError", "AttributeError", "MWSError"}

IsRaise(v) == v.t \in PyExceptions

\* bool(v) of Python 3.
truthy(v) ==
    CASE v.t \in {"str", "bytes"} -> Len(v.s) > 0
      [] v.t = "int" -> v.s # <<"0">>
      [] v.t = "float" -> v.s # <<"0", ".", "0">>
      [] v.t = "bool" -> v = PyTrue
      [] v.t = "NoneType" -> FALSE
      [] v.t = "datetime" -> TRUE
      [] OTHER -> Len(v.items) > 0

\* str(v) for a scalar.
str(v) == v.s

(***************************************************************************)
(* dict operations.                                                        *)
(***************************************************************************)
\* The keys of a dict in insertion order.
keys(d) == [i \in 1..Len(d) |-> d[i][1]]

has_key(d, k) == \E i \in 1..Len(d) : d[i][1] = k

\* d[k] for a key that is present.
get(d, k) == d[CHOOSE i \in 1..Len(d) : d[i][1] = k][2]

\* d[k] = v : a present key keeps its position, a new key goes last.
dict_set(d, k, v) ==
    IF has_key(d, k)
    THEN [i \in 1..Len(d) |-> IF d[i][1] = k THEN <<k, v>> ELSE d[i]]
    ELSE Append(d, <<k, v>>)

\* d.update(e)
RECURSIVE dict_update(_, _)
dict_update(d, e) ==
    IF Len(e) = 0 THEN d ELSE dict_update(dict_set(d, e[1][1], e[1][2]), Tail(e))

\* Insertion of one str into an ascending sequence.
RECURSIVE insert_sorted(_, _)
insert_sorted(q, k) ==
    IF Len(q) = 0 THEN <<k>>
    ELSE IF str_less(k, Head(q)) THEN <<k>> \o q
    ELSE <<Head(q)>> \o insert_sorted(Tail(q), k)

\* sorted(q) for a sequence of str.
RECURSIVE sorted(_)
sorted(q) == IF Len(q) = 0 THEN << >> ELSE insert_sorted(sorted(Tail(q)), Head(q))

(***************************************************************************)
(* The client: MWS.__init__ and the class attributes of the API families.  *)
(***************************************************************************)
\* Parameter names.
AWSAccessKeyId == <<"A", "W", "S", "A", "c", "c", "e", "s", "s", "K", "e", "y", "I", "d">>

SignatureVersion == <<"S", "i", "g", "n", "a", "t", "u", "r", "e", "V", "e", "r", "s", "i", "o", "n">>

Timestamp == <<"T", "i", "m", "e", "s", "t", "a", "m", "p">>

Version == <<"V", "e", "r", "s", "i", "o", "n">>

SignatureMethod == <<"S", "i", "g", "n", "a", "t", "u", "r", "e", "M", "e", "t", "h", "o", "d">>

MWSAuthToken == <<"M", "W", "S", "A", "u", "t", "h", "T", "o", "k", "e", "n">>

SellerId == <<"S", "e", "l", "l", "e", "r", "I", "d">>

Merchant == <<"M", "e", "r", "c", "h", "a", "n", "t">>

Action == <<"A", "c", "t", "i", "o", "n">>

\* _mws.py:127, 305, 365, 449, 493, 698, 727, 781, 803, 809 and
\* fulfillment_outbound_shipment.py:692 : the client classes.
Classes == {"MWS", "Feeds", "Reports", "Orders", "Products", "Sellers",
            "InboundShipments", "Inventory", "OutboundShipments",
            "Recommendations", "CreateFulfillmentOrder"}

\* _mws.py:152, 308, 368 : the class attribute ACCOUNT_TYPE.
ACCOUNT_TYPE(cls) == IF cls \in {"Feeds", "Reports"} THEN Merchant ELSE SellerId

\* _mws.py:133, 452, 496, 701, 728, 784, 804, 813, fulfillment_outbound_shipment.py:694
URI(cls) ==
    CASE cls = "Orders" -> <<"/", "O", "r", "d", "e", "r", "s", "/", "2", "0", "1", "3", "-", "0", "9", "-", "0", "1">>
      [] cls = "Products" -> <<"/", "P", "r", "o", "d", "u", "c", "t", "s", "/", "2", "0", "1", "1", "-", "1", "0", "-", "0", "1">>
      [] cls = "Sellers" -> <<"/", "S", "e", "l", "l", "e", "r", "s", "/", "2", "0", "1", "1", "-", "0", "7", "-", "0", "1">>
      [] cls = "InboundShipments" -> <<"/", "F", "u", "l", "f", "i", "l", "l", "m", "e", "n", "t", "I", "n", "b", "o", "u", "n", "d", "S", "h", "i", "p", "m", "e", "n", "t", "/", "2", "0", "1", "0", "-", "1", "0", "-", "0", "1">>
      [] cls = "Inventory" -> <<"/", "F", "u", "l", "f", "i", "l", "l", "m", "e", "n", "t", "I", "n", "v", "e", "n", "t", "o", "r", "y", "/", "2", "0", "1", "0", "-", "1", "0", "-", "0", "1">>
      [] cls = "OutboundShipments" -> <<"/", "F", "u", "l", "f", "i", "l", "l", "m", "e", "n", "t", "O", "u", "t", "b", "o", "u", "n", "d", "S", "h", "i", "p", "m", "e", "n", "t", "/", "2", "0", "1", "0", "-", "1", "0", "-", "0", "1">>
      [] cls = "Recommendations" -> <<"/", "R", "e", "c", "o", "m", "m", "e", "n", "d", "a", "t", "i", "o", "n", "s", "/", "2", "0", "1", "3", "-", "0", "4", "-", "0", "1">>
      [] cls = "CreateFulfillmentOrder" -> <<"/", "F", "u", "l", "f", "i", "l", "l", "m", "e", "n", "t", "O", "u", "t", "b", "o", "u", "n", "d", "S", "h", "i", "p", "m", "e", "n", "t", "/", "2", "0", "1", "0", "-", "1", "0", "-", "0", "1", "/">>
      [] OTHER -> <<"/">>

\* _mws.py:136, 453, 497, 702, 729, 785, 805, 814, fulfillment_outbound_shipment.py:695
VERSION(cls) ==
    CASE cls = "Orders" -> <<"2", "0", "1", "3", "-", "0", "9", "-", "0", "1">>
      [] cls = "Products" -> <<"2", "0", "1", "1", "-", "1", "0", "-", "0", "1">>
      [] cls = "Sellers" -> <<"2", "0", "1", "1", "-", "0", "7", "-", "0", "1">>
      [] cls \in {"InboundShipments", "Inventory", "OutboundShipments",
                  "CreateFulfillmentOrder"} -> <<"2", "0", "1", "0", "-", "1", "0", "-", "0", "1">>
      [] cls = "Recommendations" -> <<"2", "0", "1", "3", "-", "0", "4", "-", "0", "1">>
      [] OTHER -> <<"2", "0", "0", "9", "-", "0", "1", "-", "0", "1">>

\* _mws.py:47-59 : the region table.
MARKETPLACES == <<
    <<<<"C", "A">>, <<"h", "t", "t", "p", "s", ":", "/", "/", "m", "w", "s", ".", "a", "m", "a", "z", "o", "n", "s", "e", "r", "v", "i", "c", "e", "s", ".", "c", "a">>>>,
    <<<<"U", "S">>, <<"h", "t", "t", "p", "s", ":", "/", "/", "m", "w", "s", ".", "a", "m", "a", "z", "o", "n", "s", "e", "r", "v", "i", "c", "e", "s", ".", "c", "o", "m">>>>,
    <<<<"D", "E">>, <<"h", "t", "t", "p", "s", ":", "/", "/", "m", "w", "s", "-", "e", "u", ".", "a", "m", "a", "z", "o", "n", "s", "e", "r", "v", "i", "c", "e", "s", ".", "c", "o", "m">>>>,
    <<<<"E", "S">>, <<"h", "t", "t", "p", "s", ":", "/", "/", "m", "w", "s", "-", "e", "u", ".", "a", "m", "a", "z", "o", "n", "s", "e", "r", "v", "i", "c", "e", "s", ".", "c", "o", "m">>>>,
    <<<<"F", "R">>, <<"h", "t", "t", "p", "s", ":", "/", "/", "m", "w", "s", "-", "e", "u", ".", "a", "m", "a", "z", "o", "n", "s", "e", "r", "v", "i", "c", "e", "s", ".", "c", "o", "m">>>>,
    <<<<"I", "N">>, <<"h", "t", "t", "p", "s", ":", "/", "/", "m", "w", "s", ".", "a", "m", "a", "z", "o", "n", "s", "e", "r", "v", "i", "c", "e", "s", ".", "i", "n">>>>,
    <<<<"I", "T">>, <<"h", "t", "t", "p", "s", ":", "/", "/", "m", "w", "s", "-", "e", "u", ".", "a", "m", "a", "z", "o", "n", "s", "e", "r", "v", "i", "c", "e", "s", ".", "c", "o", "m">>>>,
    <<<<"U", "K">>, <<"h", "t", "t", "p", "s", ":", "/", "/", "m", "w", "s", "-", "e", "u", ".", "a", "m", "a", "z", "o", "n", "s", "e", "r", "v", "i", "c", "e", "s", ".", "c", "o", "m">>>>,
    <<<<"J", "P">>, <<"h", "t", "t", "p", "s", ":", "/", "/", "m", "w", "s", ".", "a", "m", "a", "z", "o", "n", "s", "e", "r", "v", "i", "c", "e", "s", ".", "j", "p">>>>,
    <<<<"C", "N">>, <<"h", "t", "t", "p", "s", ":", "/", "/", "m", "w", "s", ".", "a", "m", "a", "z", "o", "n", "s", "e", "r", "v", "i", "c", "e", "s", ".", "c", "o", "m", ".", "c", "n">>>>,
    <<<<"M", "X">>, <<"h", "t", "t", "p", "s", ":", "/", "/", "m", "w", "s", ".", "a", "m", "a", "z", "o", "n", "s", "e", "r", "v", "i", "c", "e", "s", ".", "c", "o", "m", ".", "m", "x">>>>
>>

\* A client object; cls "none" stands for no object.
Client(cls, access_key, secret_key, account_id, auth_token, version, uri, domain) ==
    [cls |-> cls, access_key |-> access_key, secret_key |-> secret_key,
     account_id |-> account_id, auth_token |-> auth_token, version |-> version,
     uri |-> uri, domain |-> domain]

NoClient == Client("none", << >>, << >>, << >>, << >>, << >>, << >>, << >>)

\* The arguments of a constructor call (every text argument a str).
InitArgs(cls, access_key, secret_key, account_id, region, domain, uri, version, auth_token) ==
    [cls |-> cls, access_key |-> access_key, secret_key |-> secret_key,
     account_id |-> account_id, region |-> region, domain |-> domain, uri |-> uri,
     version |-> version, auth_token |-> auth_token]

\* Mutant: the region table is consulted before the domain override.
init_domain_region_first(region, domain) ==
    IF has_key(MARKETPLACES, region) THEN Str(get(MARKETPLACES, region))
    ELSE IF Len(domain) > 0 THEN Str(domain)
    ELSE PyRaise("MWSError")

\* _mws.py:163-172 : the domain of the client, or MWSError.
init_domain(region, domain) ==
    IF Len(domain) > 0 THEN Str(domain)
    ELSE IF has_key(MARKETPLACES, region) THEN Str(get(MARKETPLACES, region))
    ELSE PyRaise("MWSError")

\* `a or b` for two str.
or_else(a, b) == IF Len(a) > 0 THEN a ELSE b

\* _mws.py:154-172 : MWS.__init__; the object, or NoClient when it raised.
MWS_new(a) ==
    LET d == init_domain(a.region, a.domain) IN
    IF IsRaise(d) THEN NoClient
    ELSE Client(a.cls, a.access_key, a.secret_key, a.account_id, a.auth_token,
                or_else(a.version, VERSION(a.cls)), or_else(a.uri, URI(a.cls)), d.s)

\* The client of the initial state: Reports('ak', 'sk', 'acct').
DefaultArgs ==
    InitArgs("Reports", <<"a", "k">>, <<"s", "k">>, <<"a", "c", "c", "t">>, <<"U", "S">>, << >>, << >>, << >>, << >>)

(***************************************************************************)
(* MWS.make_request: the building and signing of the request.              *)
(***************************************************************************)
\* Mutant: only None is taken for empty.
remove_empty_none_only(d) == SelectSeq(d, LAMBDA kv : kv[2].t # "NoneType")

\* _mws.py:79-87 : remove_empty(d) deletes every key whose value is falsy;
\* the other items keep their order.
remove_empty(d) == SelectSeq(d, LAMBDA kv : truthy(kv[2]))

\* Mutant: the SignatureMethod entry is missing and both account keys are sent.
built_in_params_both_accounts(self, ts) ==
    << <<AWSAccessKeyId, Str(self.access_key)>>,
       <<SellerId, Str(self.account_id)>>,
       <<Merchant, Str(self.account_id)>>,
       <<SignatureVersion, Str(<<"2">>)>>,
       <<Timestamp, Str(ts)>>,
       <<Version, Str(self.version)>> >>

\* _mws.py:182-191 : the built-in parameters; ts is self.get_timestamp().
built_in_params(self, ts) ==
    LET params == << <<AWSAccessKeyId, Str(self.access_key)>>,
                     <<ACCOUNT_TYPE(self.cls), Str(self.account_id)>>,
                     <<SignatureVersion, Str(<<"2">>)>>,
                     <<Timestamp, Str(ts)>>,
                     <<Version, Str(self.version)>>,
                     <<SignatureMethod, Str(<<"H", "m", "a", "c", "S", "H", "A", "2", "5", "6">>)>> >> IN
    IF Len(self.auth_token) > 0
    THEN dict_set(params, MWSAuthToken, Str(self.auth_token))
    ELSE params

\* _mws.py:194-196, 266-275 : datetime values become their timestamp text.
convert_datetimes(d) ==
    [i \in 1..Len(d) |-> IF d[i][2].t = "datetime" THEN <<d[i][1], Str(d[i][2].s)>> ELSE d[i]]

\* _mws.py:180, 194-196 : extra_data after remove_empty and the datetime conversion.
clean_extra_data(extra_data) == convert_datetimes(remove_empty(extra_data))

\* _mws.py:182-198 : params after params.update(extra_data).
\* Mutant: the built-in parameters are merged over the caller's.
request_params_built_ins_win(self, ts, extra_data) ==
    dict_update(clean_extra_data(extra_data), built_in_params(self, ts))

request_params(self, ts, extra_data) ==
    dict_update(built_in_params(self, ts), clean_extra_data(extra_data))

\* urllib.parse.quote(string, safe, encoding): a str is encoded; any other
\* value is refused with TypeError when an encoding is given, and bytes are
\* encoded when none is given.
quote(v, safe, encoding) ==
    IF v.t = "str" THEN Str(quote_chars(v.s, safe))
    ELSE IF encoding # None THEN PyRaise("TypeError")
    ELSE IF v.t = "bytes" THEN Str(quote_chars(v.s, safe))
    ELSE PyRaise("TypeError")

\* _mws.py:200 : '%s=%s' % (k, quote(params[k], encoding='utf-8', safe='-_.~'))
encode_pair(params, k) ==
    LET q == quote(get(params, k), {"-", "_", ".", "~"}, "utf-8") IN
    IF IsRaise(q) THEN q ELSE Str(k \o <<"=">> \o q.s)

\* Mutant: the parameters are taken in insertion order.
param_order_unsorted(params) == keys(params)

\* _mws.py:200 : `for k in sorted(params)`
param_order(params) == sorted(keys(params))

\* _mws.py:199-203 : request_description, or the TypeError of the first
\* value quote refuses.
request_description(params) ==
    LET order == param_order(params)
        pairs == [i \in 1..Len(order) |-> encode_pair(params, order[i])] IN
    IF \E i \in 1..Len(pairs) : IsRaise(pairs[i])
    THEN PyRaise("TypeError")
    ELSE Str(join(<<"&">>, [i \in 1..Len(pairs) |-> pairs[i].s]))

HttpsScheme == <<"h", "t", "t", "p", "s", ":", "/", "/">>

\* _mws.py:260 : self.domain.replace('https://', '').lower()
signature_host(domain) == lower(replace(domain, HttpsScheme))

\* _mws.py:260 : sig_data, the string that is signed.
sig_data(self, method, description) ==
    method \o <<"\n">> \o signature_host(self.domain) \o <<"\n">> \o self.uri
           \o <<"\n">> \o description

\* _mws.py:257-264 : calc_signature: the string it signs, and the value it
\* returns, quote(x) for the bytes x that base64.b64encode gives for the
\* HMAC-SHA256 digest of that string.  The digest is not computed here: b64
\* is the text of x.
calc_signature(self, method, description, b64) ==
    [signed |-> sig_data(self, method, description),
     value |-> quote(Bytes(b64), {"/"}, None).s]

\* Mutant: the parameter string is encoded again for the URL.
url_description_requoted(description) == quote_chars(description, {"/"})

\* _mws.py:205 : the parameter string as it is placed in the URL.
url_description(description) == description

\* _mws.py:205 : url = '%s%s?%s&Signature=%s' % (self.domain, self.uri,
\* request_description, quote(signature))
request_url(self, description, signature) ==
    self.domain \o self.uri \o <<"?">> \o url_description(description)
        \o <<"&", "S", "i", "g", "n", "a", "t", "u", "r", "e", "=">> \o quote(Str(signature), {"/"}, None).s

(***************************************************************************)
(* Inputs of the request builder.                                          *)
(***************************************************************************)
GET == <<"G", "E", "T">>

POST == <<"P", "O", "S", "T">>

\* What get_timestamp() returns (_mws.py:277-281) at two moments.
Timestamps1 == <<"2", "0", "1", "7", "-", "0", "3", "-", "0", "1", "T", "1", "0", ":", "2", "0", ":", "3", "0", "Z">>

Timestamps2 == <<"2", "0", "1", "7", "-", "0", "3", "-", "0", "1", "T", "1", "0", ":", "2", "1", ":", "3", "1", "Z">>

Timestamps == {Timestamps1, Timestamps2}

\* The base64 text of a digest, with characters quote escapes (+ and =) and
\* one it keeps by default (/).
B64Digest == <<"a", "+", "/", "b", "9", "w", "=", "=">>

\* Names of operation parameters.
ReportId == <<"R", "e", "p", "o", "r", "t", "I", "d">>

MaxCount == <<"M", "a", "x", "C", "o", "u", "n", "t">>

AcknowledgedKey == <<"A", "c", "k", "n", "o", "w", "l", "e", "d", "g", "e", "d">>

AvailableFromDate == <<"A", "v", "a", "i", "l", "a", "b", "l", "e", "F", "r", "o", "m", "D", "a", "t", "e">>

NextToken == <<"N", "e", "x", "t", "T", "o", "k", "e", "n">>

\* The three pairs of one GetOrder call, whose six insertion orders are tried.
OrderPairs == << <<Action, Str(<<"G", "e", "t", "O", "r", "d", "e", "r">>)>>,
                 <<<<"A", "m", "a", "z", "o", "n", "O", "r", "d", "e", "r", "I", "d", ".", "I", "d", ".", "2">>, Str(<<"9", "0", "2", "-", "1", " ", "b">>)>>,
                 <<<<"A", "m", "a", "z", "o", "n", "O", "r", "d", "e", "r", "I", "d", ".", "I", "d", ".", "1", "0">>, Str(<<"9", "0", "2", "-", "3">>)>> >>

Orderings(q) ==
    {[i \in 1..Len(q) |-> q[f[i]]] : f \in {g \in [1..Len(q) -> 1..Len(q)] :
                                              \A i, j \in 1..Len(q) : i # j => g[i] # g[j]}}

\* extra_data mappings handed to make_request.
ExtraDatas ==
    Orderings(OrderPairs) \cup
    { << >>,
      << <<Action, Str(<<"G", "e", "t", "R", "e", "p", "o", "r", "t">>)>>, <<ReportId, Str(<<"r", "+", "1", "/", "2", "=">>)>> >>,
      << <<ReportId, Str(<<"r", "+", "1", "/", "2", "=">>)>>, <<Action, Str(<<"G", "e", "t", "R", "e", "p", "o", "r", "t">>)>> >>,
      \* empty values of every kind, and a datetime
      << <<Action, Str(<<"G", "e", "t", "R", "e", "p", "o", "r", "t", "L", "i", "s", "t">>)>>, <<AcknowledgedKey, PyNone>>,
         <<AvailableFromDate, Datetime(<<"2", "0", "1", "7", "-", "0", "2", "-", "0", "1", "T", "0", "0", ":", "0", "0", ":", "0", "0", "Z">>)>>,
         <<MaxCount, PyInt(<<"0">>)>>, <<NextToken, Str(<< >>)>>,
         <<<<"R", "e", "p", "o", "r", "t", "T", "y", "p", "e", "L", "i", "s", "t">>, Tuple(<< >>)>>, <<<<"F", "l", "a", "g">>, PyFalse>> >>,
      \* values quote refuses
      << <<Action, Str(<<"G", "e", "t", "R", "e", "p", "o", "r", "t", "L", "i", "s", "t">>)>>, <<MaxCount, PyInt(<<"1", "0">>)>> >>,
      << <<Action, Str(<<"G", "e", "t", "R", "e", "p", "o", "r", "t", "C", "o", "u", "n", "t">>)>>, <<AcknowledgedKey, PyTrue>> >>,
      << <<Action, Str(<<"G", "e", "t", "R", "e", "p", "o", "r", "t">>)>>, <<ReportId, Bytes(<<"r", "1">>)>> >>,
      \* built-in names among the caller's parameters
      << <<Action, Str(<<"G", "e", "t", "R", "e", "p", "o", "r", "t">>)>>, <<SignatureVersion, Str(<<"1">>)>>,
         <<Merchant, Str(<<"o", "t", "h", "e", "r">>)>>, <<SellerId, Str(<<"o", "t", "h", "e", "r">>)>> >>,
      << <<Action, Str(<<"G", "e", "t", "R", "e", "p", "o", "r", "t">>)>>, <<Version, Str(<< >>)>>,
         <<MWSAuthToken, Str(<<"c", "a", "l", "l", "e", "r">>)>> >>,
      << <<Action, PyNone>>, <<NextToken, Str(<<"t", "%", "2", "B", " ", "o", "k">>)>> >> }

\* extra_data of the calls whose response handling is explored.
ReqExtraDatas ==
    { << >>,
      << <<Action, Str(<<"G", "e", "t", "R", "e", "p", "o", "r", "t">>)>>, <<ReportId, Str(<<"r", "1">>)>> >>,
      << <<Action, Str(<<"G", "e", "t", "R", "e", "p", "o", "r", "t", "L", "i", "s", "t">>)>>, <<MaxCount, PyInt(<<"1", "0">>)>> >> }

\* region arguments: the keys of the table, and three that are none of them.
Regions == {MARKETPLACES[i][1] : i \in 1..Len(MARKETPLACES)} \cup {<<"X", "X">>, <<"u", "s">>, << >>}

\* domain arguments: none, and three overrides.
Domains == {<< >>, <<"h", "t", "t", "p", "s", ":", "/", "/", "M", "w", "s", ".", "A", "m", "a", "z", "o", "n", "s", "e", "r", "v", "i", "c", "e", "s", ".", "C", "O", "M">>,
            <<"H", "T", "T", "P", "S", ":", "/", "/", "m", "w", "s", ".", "a", "m", "a", "z", "o", "n", "s", "e", "r", "v", "i", "c", "e", "s", ".", "c", "o", "m">>, <<"h", "t", "t", "p", ":", "/", "/", "l", "o", "c", "a", "l", "h", "o", "s", "t", ":", "8", "0", "8", "0">>}

\* Constructor calls.
ClientArgs ==
    {InitArgs("Orders", <<"a", "k">>, <<"s", "k">>, <<"a", "c", "c", "t">>, r, d, << >>, << >>, << >>) :
         r \in Regions, d \in Domains}
    \cup
    {InitArgs(c, k, <<"s", "k">>, <<"a", "c", "c", "t">>, <<"U", "S">>, << >>, << >>, << >>, t) :
         c \in Classes, k \in {<<"a", "k">>, << >>}, t \in {<< >>, <<"t", "o", "k">>}}
    \cup
    {InitArgs("Orders", <<"a", "k">>, <<"s", "k">>, <<"a", "c", "c", "t">>, <<"D", "E">>, << >>, <<"/", "O", "r", "d", "e", "r", "s", "/", "2", "0", "1", "1", "-", "0", "1", "-", "0", "1">>,
              <<"2", "0", "1", "1", "-", "0", "1", "-", "0", "1">>, << >>)}

(***************************************************************************)
(* The parameter helpers of the API classes.                               *)
(***************************************************************************)
Digits == <<"0", "1", "2", "3", "4", "5", "6", "7", "8", "9">>

\* '%d' % n for a natural number n.
RECURSIVE decimal(_)
decimal(n) == IF n < 10 THEN <<Digits[n + 1]>> ELSE decimal(n \div 10) \o <<Digits[(n % 10) + 1]>>

\* What a for loop over v visits; only defined when iterable(v).
iterable(v) == v.t \notin {"NoneType", "int", "float", "bool", "datetime"} /\ ~IsRaise(v)

iterate(v) ==
    CASE v.t = "str" -> [i \in 1..Len(v.s) |-> Str(<<v.s[i]>>)]
      [] v.t = "bytes" -> [i \in 1..Len(v.s) |-> PyInt(decimal(ord(v.s[i])))]
      [] v.t \in {"list", "tuple"} -> v.items
      [] OTHER -> [i \in 1..Len(v.items) |-> Str(v.items[i][1])]

\* Mutant: the members are numbered from 0.
enumerate_param_from_zero(param, values) ==
    IF values = PyNone THEN Dict("dict", << >>)
    ELSE IF ~iterable(values) THEN PyRaise("TypeError")
    ELSE LET prefix == IF endswith(param, <<".">>) THEN param ELSE param \o <<".">>
             elems == iterate(values)
         IN Dict("dict", [num \in 1..Len(elems) |-> <<prefix \o decimal(num - 1), elems[num]>>])

\* _mws.py:283-302 : MWS.enumerate_param.  (num counts from 1 here, from 0 in
\* the source, which adds 1.)
enumerate_param(param, values) ==
    IF values = PyNone THEN Dict("dict", << >>)
    ELSE IF ~iterable(values) THEN PyRaise("TypeError")
    ELSE LET prefix == IF endswith(param, <<".">>) THEN param ELSE param \o <<".">>
             elems == iterate(values)
         IN Dict("dict", [num \in 1..Len(elems) |-> <<prefix \o decimal(num), elems[num]>>])

\* The longest sequence of members all of whose contents are tried.
MaxValues == 3

\* param arguments of the callers, with and without the final dot.
EnumParams == {<<"R", "e", "p", "o", "r", "t", "I", "d", "L", "i", "s", "t", ".", "I", "d", ".">>, <<"F", "e", "e", "d", "S", "u", "b", "m", "i", "s", "s", "i", "o", "n", "I", "d", "L", "i", "s", "t", ".", "I", "d">>, <<"I", "d", "L", "i", "s", "t", ".", "I", "d">>}

\* Members: two identifiers, an empty one, a number.
Members == {Str(<<"A", "1">>), Str(<<"B", "2">>), Str(<< >>), PyInt(<<"7">>)}

MemberSeqs == UNION {[1..n -> Members] : n \in 0..MaxValues}

\* A sequence long enough for two-digit numbers.
ElevenMembers == [i \in 1..11 |-> Str(<<"m">> \o decimal(i))]

\* values arguments: None, tuples and lists, a str, and an int (not iterable).
EnumValues ==
    {PyNone, Str(<<"a", "b">>), PyInt(<<"5">>), Tuple(ElevenMembers)}
    \cup {Tuple(q) : q \in MemberSeqs} \cup {List(q) : q \in MemberSeqs}

(***************************************************************************)
(* fulfillment_outbound_shipment.py: the structured request records.       *)
(***************************************************************************)
\* The classes derived from DictParam.
DictParamClasses == {"Currency", "CODSettings", "DeliveryWindow", "Address",
                     "CreateFulfillmentOrderItem", "CreateFulfillmentOrder"}

\* isinstance(v, dict)
is_dict(v) == v.t \in DictParamClasses \cup {"dict"}

\* len(v), for the values that have one.
sized(v) == v.t \in {"str", "bytes", "list", "tuple"} \/ is_dict(v)

len(v) == IF v.t \in {"str", "bytes"} THEN Len(v.s) ELSE Len(v.items)

\* d.get(k)
get_or_none(d, k) == IF has_key(d, k) THEN get(d, k) ELSE PyNone

\* Class attributes of Address.
max_name_len == 50

max_line_1_len == 60

max_line_2_len == 60

max_line_3_len == 60

max_district_or_county_len == 150

max_city_len == 50

max_state_or_province_len == 150

max_postal_code_len == 20

max_phone_number_len == 20

\* Class attributes of CreateFulfillmentOrderItem.
max_seller_sku_len == 50

max_seller_fulfillment_order_item_id_len == 50

max_gift_message_len == 512

max_displayable_comment_len == 250

\* Class attributes of CreateFulfillmentOrder.
valid_fulfillment_action_values == {<<"S", "h", "i", "p">>, <<"H", "o", "l", "d">>}

valid_shipping_speed_category_values == {<<"S", "t", "a", "n", "d", "a", "r", "d">>, <<"E", "x", "p", "e", "d", "i", "t", "e", "d">>, <<"P", "r", "i", "o", "r", "i", "t", "y">>, <<"S", "c", "h", "e", "d", "u", "l", "e", "d", "D", "e", "l", "i", "v", "e", "r", "y">>}

valid_fulfillment_policy_values == {<<"F", "i", "l", "l", "O", "r", "K", "i", "l", "l">>, <<"F", "i", "l", "l", "A", "l", "l">>, <<"F", "i", "l", "l", "A", "l", "l", "A", "v", "a", "i", "l", "a", "b", "l", "e">>}

max_sfoi_len == 40

min_displayable_order_id_len == 1

max_displayable_order_id_len == 40

max_displayable_order_comment_len == 1000

max_email_len == 60

\* One property of a record class: the keyword of __init__ (and name of the
\* property), the key it is stored under, what its setter does (kind, with the
\* limits, the valid values or the class it loads in arg), and the default
\* of __init__.
Property(prop, key, kind, arg, default) ==
    [prop |-> prop, key |-> key, kind |-> kind, arg |-> arg, default |-> default]

\* The properties of each class, in the order __init__ assigns them.
Properties(cls) ==
    CASE cls = "Currency" -> <<
           Property("value", <<"V", "a", "l", "u", "e">>, "plain", << >>, PyFloat(<<"0", ".", "0">>)),
           Property("currency_code", <<"C", "u", "r", "r", "e", "n", "c", "y", "C", "o", "d", "e">>, "plain", << >>, Str(<<"U", "S", "D">>)) >>
      [] cls = "CODSettings" -> <<
           Property("is_cod_required", <<"I", "s", "C", "O", "D", "R", "e", "q", "u", "i", "r", "e", "d">>, "plain", << >>, PyFalse),
           Property("cod_charge", <<"C", "O", "D", "C", "h", "a", "r", "g", "e">>, "load", "Currency", PyInt(<<"0">>)),
           Property("cod_charge_tax", <<"C", "O", "D", "C", "h", "a", "r", "g", "e", "T", "a", "x">>, "load", "Currency", PyInt(<<"0">>)),
           Property("shipping_charge", <<"S", "h", "i", "p", "p", "i", "n", "g", "C", "h", "a", "r", "g", "e">>, "load", "Currency", PyInt(<<"0">>)),
           Property("shipping_charge_tax", <<"S", "h", "i", "p", "p", "i", "n", "g", "C", "h", "a", "r", "g", "e", "T", "a", "x">>, "load", "Currency", PyInt(<<"0">>)) >>
      [] cls = "DeliveryWindow" -> <<
           Property("start_date_time", <<"S", "t", "a", "r", "t", "D", "a", "t", "e", "T", "i", "m", "e">>, "iso", << >>, PyNone),
           Property("end_date_time", <<"E", "n", "d", "D", "a", "t", "e", "T", "i", "m", "e">>, "iso", << >>, PyNone) >>
      [] cls = "Address" -> <<
           Property("name", <<"N", "a", "m", "e">>, "length", <<max_name_len, 0>>, Str(<< >>)),
           Property("line_1", <<"L", "i", "n", "e", "1">>, "length", <<max_line_1_len, 0>>, Str(<< >>)),
           Property("line_2", <<"L", "i", "n", "e", "2">>, "length", <<max_line_2_len, 0>>, Str(<< >>)),
           Property("line_3", <<"L", "i", "n", "e", "3">>, "length", <<max_line_3_len, 0>>, Str(<< >>)),
           Property("district_or_county", <<"D", "i", "s", "t", "r", "i", "c", "t", "O", "r", "C", "o", "u", "n", "t", "y">>, "length", <<max_district_or_county_len, 0>>, Str(<< >>)),
           Property("city", <<"C", "i", "t", "y">>, "length", <<max_city_len, 0>>, Str(<< >>)),
           Property("state_or_province_code", <<"S", "t", "a", "t", "e", "O", "r", "P", "r", "o", "v", "i", "n", "c", "e", "C", "o", "d", "e">>, "length", <<max_state_or_province_len, 0>>, Str(<< >>)),
           Property("country_code", <<"C", "o", "u", "n", "t", "r", "y", "C", "o", "d", "e">>, "plain", << >>, Str(<< >>)),
           Property("postal_code", <<"P", "o", "s", "t", "a", "l", "C", "o", "d", "e">>, "length", <<max_postal_code_len, 0>>, Str(<< >>)),
           Property("phone_number", <<"P", "h", "o", "n", "e", "N", "u", "m", "b", "e", "r">>, "length", <<max_phone_number_len, 0>>, Str(<< >>)) >>
      [] cls = "CreateFulfillmentOrderItem" -> <<
           Property("seller_sku", <<"S", "e", "l", "l", "e", "r", "S", "K", "U">>, "length", <<max_seller_sku_len, 0>>, Str(<< >>)),
           Property("seller_fulfillment_order_item_id", <<"S", "e", "l", "l", "e", "r", "F", "u", "l", "f", "i", "l", "l", "m", "e", "n", "t", "O", "r", "d", "e", "r", "I", "t", "e", "m", "I", "d">>, "length",
                    <<max_seller_fulfillment_order_item_id_len, 0>>, Str(<< >>)),
           Property("quantity", <<"Q", "u", "a", "n", "t", "i", "t", "y">>, "plain", << >>, PyInt(<<"0">>)),
           Property("gift_message", <<"G", "i", "f", "t", "M", "e", "s", "s", "a", "g", "e">>, "length", <<max_gift_message_len, 0>>, Str(<< >>)),
           Property("displayable_comment", <<"D", "i", "s", "p", "l", "a", "y", "a", "b", "l", "e", "C", "o", "m", "m", "e", "n", "t">>, "length", <<max_displayable_comment_len, 0>>, Str(<< >>)),
           Property("fulfillment_network_sku", <<"F", "u", "l", "f", "i", "l", "l", "m", "e", "n", "t", "N", "e", "t", "w", "o", "r", "k", "S", "K", "U">>, "plain", << >>, Str(<< >>)),
           Property("per_unit_declared_value", <<"P", "e", "r", "U", "n", "i", "t", "D", "e", "c", "l", "a", "r", "e", "d", "V", "a", "l", "u", "e">>, "load", "Currency", PyFloat(<<"0", ".", "0">>)),
           Property("per_unit_price", <<"P", "e", "r", "U", "n", "i", "t", "P", "r", "i", "c", "e">>, "load", "Currency", PyFloat(<<"0", ".", "0">>)),
           Property("per_unit_tax", <<"P", "e", "r", "U", "n", "i", "t", "T", "a", "x">>, "load", "Currency", PyFloat(<<"0", ".", "0">>)) >>
      [] cls = "CreateFulfillmentOrder" -> <<
           Property("marketplace_id", <<"M", "a", "r", "k", "e", "t", "p", "l", "a", "c", "e", "I", "d">>, "plain", << >>, Str(<<"A", "T", "V", "P", "D", "K", "I", "K", "X", "0", "D", "E", "R">>)),
           Property("seller_fulfillment_order_id", <<"S", "e", "l", "l", "e", "r", "F", "u", "l", "f", "i", "l", "l", "m", "e", "n", "t", "O", "r", "d", "e", "r", "I", "d">>, "plain", << >>, Str(<< >>)),
           Property("fulfillment_action", <<"F", "u", "l", "f", "i", "l", "l", "m", "e", "n", "t", "A", "c", "t", "i", "o", "n">>, "enum", valid_fulfillment_action_values, Str(<<"S", "h", "i", "p">>)),
           Property("displayable_order_id", <<"D", "i", "s", "p", "l", "a", "y", "a", "b", "l", "e", "O", "r", "d", "e", "r", "I", "d">>, "length",
                    <<max_displayable_order_id_len, min_displayable_order_id_len>>, Str(<<"1">>)),
           Property("displayable_order_date_time", <<"D", "i", "s", "p", "l", "a", "y", "a", "b", "l", "e", "O", "r", "d", "e", "r", "D", "a", "t", "e", "T", "i", "m", "e">>, "iso", << >>, Str(<< >>)),
           Property("displayable_order_comment", <<"D", "i", "s", "p", "l", "a", "y", "a", "b", "l", "e", "O", "r", "d", "e", "r", "C", "o", "m", "m", "e", "n", "t">>, "length",
                    <<max_displayable_order_comment_len, 0>>, Str(<< >>)),
           Property("shipping_speed_category", <<"S", "h", "i", "p", "p", "i", "n", "g", "S", "p", "e", "e", "d", "C", "a", "t", "e", "g", "o", "r", "y">>, "enum",
                    valid_shipping_speed_category_values, Str(<<"S", "t", "a", "n", "d", "a", "r", "d">>)),
           Property("destination_address", <<"D", "e", "s", "t", "i", "n", "a", "t", "i", "o", "n", "A", "d", "d", "r", "e", "s", "s">>, "load", "Address", PyNone),
           Property("fulfillment_policy", <<"F", "u", "l", "f", "i", "l", "l", "m", "e", "n", "t", "P", "o", "l", "i", "c", "y">>, "enum", valid_fulfillment_policy_values, Str(<<"F", "i", "l", "l", "O", "r", "K", "i", "l", "l">>)),
           Property("notification_email_list", <<"N", "o", "t", "i", "f", "i", "c", "a", "t", "i", "o", "n", "E", "m", "a", "i", "l", "L", "i", "s", "t">>, "emails", << >>, Tuple(<< >>)),
           Property("cod_settings", <<"C", "O", "D", "S", "e", "t", "t", "i", "n", "g", "s">>, "load", "CODSettings", PyNone),
           Property("items_", <<"I", "t", "e", "m", "s">>, "items", << >>, Tuple(<< >>)),
           Property("delivery_window", <<"D", "e", "l", "i", "v", "e", "r", "y", "W", "i", "n", "d", "o", "w">>, "load", "DeliveryWindow", PyNone) >>

\* The property of cls named prop.
property(cls, prop) ==
    Properties(cls)[CHOOSE i \in 1..Len(Properties(cls)) : Properties(cls)[i].prop = prop]

\* fulfillment_outbound_shipment.py:15-28 : None, or the exception raised.
raise_for_length(val, max_l, min_l) ==
    IF ~sized(val) THEN PyRaise("TypeError")
    ELSE IF len(val) < min_l THEN PyRaise("ValueError")
    ELSE IF len(val) > max_l THEN PyRaise("ValueError")
    ELSE PyNone

\* fulfillment_outbound_shipment.py:31-42
to_iso_8601_format(dt) ==
    IF ~truthy(dt) THEN PyNone
    ELSE IF dt.t = "str" THEN dt
    ELSE IF dt.t = "datetime" THEN Str(dt.s)
    ELSE PyRaise("AttributeError")

\* float(val), for the numbers.
float(val) ==
    CASE val.t = "float" -> val
      [] val.t = "int" -> PyFloat(val.s \o <<".", "0">>)
      [] val.t = "bool" -> IF val = PyTrue THEN PyFloat(<<"1", ".", "0">>) ELSE PyFloat(<<"0", ".", "0">>)
      [] val.t = "str" -> PyRaise("ValueError")
      [] OTHER -> PyRaise("TypeError")

\* The first exception among the results q, or None.
first_raise(q) ==
    LET bad == {i \in 1..Len(q) : IsRaise(q[i])} IN
    IF bad = {} THEN PyNone ELSE q[CHOOSE i \in bad : \A j \in bad : i <= j]

RECURSIVE setter(_, _), new_from(_, _, _, _), load(_, _)

\* What the setter of property p stores for val, or the exception it raises.
setter(p, val) ==
    CASE p.kind = "plain" -> val
      [] p.kind = "length" ->
           LET r == raise_for_length(val, p.arg[1], p.arg[2]) IN IF IsRaise(r) THEN r ELSE val
      [] p.kind = "enum" ->
           IF val.t \in {"list", "dict"} \/ is_dict(val) THEN PyRaise("TypeError")
           ELSE IF val.t = "str" /\ val.s \in p.arg THEN val
           ELSE PyRaise("ValueError")
      [] p.kind = "iso" -> to_iso_8601_format(val)
      [] p.kind = "load" -> load(p.arg, val)
      [] p.kind = "emails" ->
           IF val.t \notin {"list", "tuple"} THEN PyRaise("ValueError")
           ELSE LET r == first_raise([i \in 1..Len(val.items) |->
                                          raise_for_length(val.items[i], max_email_len, 0)])
                IN IF IsRaise(r) THEN r ELSE List(val.items)
      [] p.kind = "items" ->
           IF val.t \notin {"list", "tuple"} THEN PyRaise("ValueError")
           ELSE LET q == [i \in 1..Len(val.items) |-> load("CreateFulfillmentOrderItem", val.items[i])]
                    r == first_raise(q)
                IN IF IsRaise(r) THEN r ELSE List(q)

\* cls.__init__(**kwargs) from its i-th assignment on, acc holding the items
\* stored so far: the record, or the exception a setter raised.
new_from(cls, kwargs, i, acc) ==
    IF i > Len(Properties(cls)) THEN Dict(cls, acc)
    ELSE LET p == Properties(cls)[i]
             r == setter(p, IF has_key(kwargs, p.prop) THEN get(kwargs, p.prop) ELSE p.default)
         IN IF IsRaise(r) THEN r ELSE new_from(cls, kwargs, i + 1, dict_set(acc, p.key, r))

\* cls.load(d): Currency.load (lines 162-186) converts a number; the others
\* (279-284, 335-338, 519-525, 680-689) read every keyword from d.
load(cls, d) ==
    IF is_dict(d)
    THEN new_from(cls, [i \in 1..Len(Properties(cls)) |->
                           <<Properties(cls)[i].prop, get_or_none(d.items, Properties(cls)[i].key)>>],
                  1, << >>)
    ELSE IF cls # "Currency" \/ ~truthy(d) THEN new_from(cls, << >>, 1, << >>)
    ELSE LET f == float(d) IN
         IF IsRaise(f) THEN f ELSE new_from(cls, << <<"value", f>> >>, 1, << >>)

\* cls(**kwargs)
new(cls, kwargs) == new_from(cls, kwargs, 1, << >>)

RECURSIVE flattened(_), flatten_items(_, _), flatten_elements(_, _, _)

\* DictParam.flattened._flatten (lines 76-95)
flatten_one(k_, v_) ==
    IF v_.t \in DictParamClasses
    THEN LET f == SelectSeq(flattened(v_), LAMBDA kv : truthy(kv[2]))
         IN [i \in 1..Len(f) |-> <<k_ \o <<".">> \o f[i][1], Str(str(f[i][2]))>>]
    ELSE << <<k_, Str(str(v_))>> >>

\* lines 106-109 : the elements of the list v under the key k, from the i-th on.
flatten_elements(k, v, i) ==
    IF i > Len(v) THEN << >>
    ELSE dict_update(flatten_one(k \o <<".", "m", "e", "m", "b", "e", "r", ".">> \o decimal(i), v[i]), flatten_elements(k, v, i + 1))

\* lines 97-112 : the loop over self.items(), into d.
flatten_items(items, d) ==
    IF Len(items) = 0 THEN d
    ELSE LET k == items[1][1]
             v == items[1][2]
         IN flatten_items(Tail(items),
                IF ~truthy(v) THEN d
                ELSE IF v.t = "list" THEN dict_update(d, flatten_elements(k, v.items, 1))
                ELSE dict_update(d, flatten_one(k, v)))

\* fulfillment_outbound_shipment.py:66-115 : DictParam.flattened, as items.
flattened(self) == flatten_items(self.items, << >>)

\* _mws.py:526-532 : Products.fmt_bool
fmt_bool(b) == IF truthy(b) THEN Str(<<"t", "r", "u", "e">>) ELSE Str(<<"f", "a", "l", "s", "e">>)

\* _mws.py:443-446 : the data Reports.update_report_acknowledgements hands to
\* make_request, or the exception enumerate_param raised.
update_report_acknowledgements(report_ids, acknowledged) ==
    LET data == << <<Action, Str(<<"U", "p", "d", "a", "t", "e", "R", "e", "p", "o", "r", "t", "A", "c", "k", "n", "o", "w", "l", "e", "d", "g", "e", "m", "e", "n", "t", "s">>)>>,
                   <<AcknowledgedKey, IF truthy(acknowledged) THEN Str(<<"t", "r", "u", "e">>) ELSE Str(<<"f", "a", "l", "s", "e">>)>> >>
        e == enumerate_param(<<"R", "e", "p", "o", "r", "t", "I", "d", "L", "i", "s", "t", ".", "I", "d", ".">>, report_ids)
    IN IF IsRaise(e) THEN e ELSE Dict("dict", dict_update(data, e.items))

\* Keyword arguments of CODSettings(...) and of the cod_settings of an order.
Booleans == {PyTrue, PyFalse}

CODSettingsArgs ==
    {<< <<"is_cod_required", b>> >> : b \in Booleans}
    \cup {<< <<"is_cod_required", b>>, <<"cod_charge", PyFloat(<<"2", ".", "5">>)>> >> : b \in Booleans}
    \cup {<< >>}

\* The records whose flattened() is called.
Records ==
    {new("CODSettings", kw) : kw \in CODSettingsArgs}
    \cup {new("CreateFulfillmentOrder", << <<"cod_settings", new("CODSettings", kw)>> >>) : kw \in CODSettingsArgs}
    \cup {new("CreateFulfillmentOrder",
              << <<"cod_settings", Dict("dict", << <<<<"I", "s", "C", "O", "D", "R", "e", "q", "u", "i", "r", "e", "d">>, b>> >>)>>,
                 <<"notification_email_list", List(<<Str(<<"a", "@", "b", ".", "c">>), Str(<< >>)>>)>>,
                 <<"items_", Tuple(<< Dict("dict", << <<<<"S", "e", "l", "l", "e", "r", "S", "K", "U">>, Str(<<"s", "k", "u", "-", "1">>)>>,
                                                    <<<<"S", "e", "l", "l", "e", "r", "F", "u", "l", "f", "i", "l", "l", "m", "e", "n", "t", "O", "r", "d", "e", "r", "I", "t", "e", "m", "I", "d">>, Str(<<"i", "1">>)>>,
                                                    <<<<"Q", "u", "a", "n", "t", "i", "t", "y">>, PyInt(<<"2">>)>>,
                                                    <<<<"G", "i", "f", "t", "M", "e", "s", "s", "a", "g", "e">>, Str(<< >>)>>,
                                                    <<<<"D", "i", "s", "p", "l", "a", "y", "a", "b", "l", "e", "C", "o", "m", "m", "e", "n", "t">>, Str(<< >>)>>,
                                                    <<<<"P", "e", "r", "U", "n", "i", "t", "P", "r", "i", "c", "e">>, PyFloat(<<"9", ".", "5">>)>> >>) >>)>> >>) :
          b \in Booleans}
    \cup {new("Address", << <<"name", Str(<<"A", "n", "n">>)>>, <<"city", Str(<<"O", "s", "l", "o">>)>> >>),
          new("Currency", << >>), new("DeliveryWindow", << >>)}

(***************************************************************************)
(* MWS.make_request: the handling of the HTTP response, and DataWrapper.   *)
(***************************************************************************)
\* HTTP status codes the service (or a proxy) can answer with.
HttpStatuses == {200, 201, 304, 404, 503}

\* Raw bodies.
BodyData == {"b1", "b2"}

\* What a body is: an ErrorResponse document, another XML document (a result),
\* or no XML at all (a flat file).
BodyKinds == {"error", "result", "flat"}

\* A text value: its Python type, what it holds, the text of the first
\* //ErrorResponse/Error/Message element (None when absent or empty), and the
\* raw characters.
Texts == {t \in [type : {"str", "bytes"}, kind : BodyKinds,
                 message : {None, "m1"}, data : BodyData] :
             t.message # None => t.kind = "error"}

\* _mws.py:228-231  requests' response.content is the body as bytes.
ResponseContents == {t \in Texts : t.type = "bytes"}

\* base64 of the MD5 digest of a raw body, as the service puts it in Content-MD5.
B64MD5(d) == <<"b64", "md5", d>>

\* The content-md5 response header: absent (the empty tuple) or a digest.
Md5Headers == {<< >>} \cup {B64MD5(d) : d \in BodyData}

Responses == [status : HttpStatuses, content : ResponseContents, content_md5 : Md5Headers]

\* An exception: its class, its message, and whether its `response` attribute
\* was set to the HTTP response of the call.
Exc(e, msg, resp) ==
    [kind |-> "raise", exc |-> e, message |-> msg, response |-> resp,
     wrapper |-> None, parsed |-> None]

\* A wrapper object: its class, its `parsed` value, and whether its `response`
\* attribute was set to the HTTP response of the call.
Wrapper(w, parsed, resp) ==
    [kind |-> "return", exc |-> None, message |-> None, response |-> resp,
     wrapper |-> w, parsed |-> parsed]

NoResult == [kind |-> "none", exc |-> None, message |-> None, response |-> FALSE,
             wrapper |-> None, parsed |-> None]

NoText == [type |-> "bytes", kind |-> "flat", message |-> None, data |-> "b1"]

NoResponse == [status |-> 200, content |-> NoText, content_md5 |-> << >>]

ReqInit ==
    /\ mr_called = FALSE
    /\ mr_action = FALSE
    /\ mr_response = NoResponse
    /\ mr_sent = 0
    /\ mr_steps = << >>
    /\ mr_outcome = NoResult
    /\ dw_called = FALSE
    /\ dw_data = NoText
    /\ dw_header = << >>
    /\ dw_outcome = NoResult
    /\ client = MWS_new(DefaultArgs)
    /\ init_called = FALSE
    /\ init_args = DefaultArgs
    /\ init_raised = None
    /\ mr_extra = << >>
    /\ mr_cleaned = << >>
    /\ mr_method = << >>
    /\ mr_params = << >>
    /\ mr_description = << >>
    /\ mr_signed = << >>
    /\ mr_url = << >>

\* errors.py:32-44, 22-25  ErrorResponse.load(xml_string) and err.message.
\* re.sub applies the str pattern `ptn` (line 41-42), which Python refuses for a
\* bytes subject with TypeError; etree.fromstring raises XMLSyntaxError for a
\* text that is no XML; otherwise the error object carries the Message text.
ErrorResponse_load(x) ==
    IF x.type = "bytes" THEN Exc("TypeError", "cannot use a string pattern on a bytes-like object", FALSE)
    ELSE IF x.kind = "flat" THEN Exc("XMLSyntaxError", None, FALSE)
    ELSE Wrapper("ErrorResponse", x.message, FALSE)

\* _mws.py:219-225  the error-envelope check: the exception that leaves it,
\* or NoResult when the code goes on.
check_error_envelope(content) ==
    LET err == ErrorResponse_load(content) IN
    IF err.kind = "raise"
    THEN IF err.exc = "XMLSyntaxError" THEN NoResult ELSE err
    ELSE IF err.parsed # None /\ err.parsed # ""
         THEN Exc("ErrorResponse", err.parsed, FALSE)
         ELSE NoResult

\* _mws.py:227  response.raise_for_status(): requests raises HTTPError for the
\* client and server error classes (400..599).
raise_for_status(st) == 400 <= st /\ st < 600

\* _mws.py:240-243  MWSError(str(e.response.text)) with error.response = e.response
mws_error_from_http(resp) == Exc("MWSError", resp.content.data, TRUE)

\* _mws.py:90-92  remove_namespace(xml): a str pattern applied to xml.
remove_namespace(x) ==
    IF x.type = "bytes" THEN Exc("TypeError", "cannot use a string pattern on a bytes-like object", FALSE)
    ELSE Wrapper("str", x.data, FALSE)

\* utils.xml2dict().fromstring: the tree of an XML text, XMLError for any other text.
xml2dict_fromstring(x) ==
    IF x.kind = "flat" THEN Exc("XMLError", None, FALSE) ELSE Wrapper("dict", "tree", FALSE)

\* _mws.py:95-108  DictWrapper(xml, rootkey)
DictWrapper(x) ==
    LET stripped == remove_namespace(x) IN
    IF stripped.kind = "raise" THEN stripped
    ELSE LET d == xml2dict_fromstring(x) IN
         IF d.kind = "raise" THEN d ELSE Wrapper("DictWrapper", "tree", FALSE)

\* _mws.py:71-76  calc_md5(string): md.update refuses a str (line 75);
\* base64.encodebytes returns bytes, whose strip refuses the str '\n' (line 76).
calc_md5(x) ==
    IF x.type = "str" THEN Exc("TypeError", "Strings must be encoded before hashing", FALSE)
    ELSE Exc("TypeError", "a bytes-like object is required, not 'str'", FALSE)

\* _mws.py:115-124  DataWrapper(data, header); md5 is header['content-md5'],
\* the empty tuple when the key is absent.
DataWrapper(x, md5) ==
    IF md5 # << >>
    THEN LET hash == calc_md5(x) IN
         IF hash.kind = "raise" THEN hash
         ELSE IF md5 # hash.parsed
              THEN Exc("MWSError", "Wrong Contentlength, maybe amazon error...", FALSE)
              ELSE Wrapper("DataWrapper", x.data, FALSE)
    ELSE Wrapper("DataWrapper", x.data, FALSE)

\* _mws.py:235-238  the decoding of the body: DictWrapper, or DataWrapper
\* when DictWrapper raised XMLError.  extra_data.get("Action") + "Result" is
\* evaluated first and is a TypeError without an Action.
decode(resp, hasAction) ==
    IF ~hasAction
    THEN <<Exc("TypeError", "unsupported operand type(s) for +", FALSE), <<"DictWrapper">>>>
    ELSE LET w == DictWrapper(resp.content) IN
         IF w.kind = "raise" /\ w.exc = "XMLError"
         THEN <<DataWrapper(resp.content, resp.content_md5), <<"DictWrapper", "DataWrapper">>>>
         ELSE <<w, <<"DictWrapper">>>>

\* _mws.py:246  parsed_response.response = response
attach_response(r) == IF r.kind = "return" THEN [r EXCEPT !.response = TRUE] ELSE r

\* _mws.py:211-247  what make_request does with the response: the result
\* (a wrapper or the exception that leaves the method) and the steps taken.
handle_response(resp, hasAction) ==
    LET env == check_error_envelope(resp.content) IN
    IF env.kind = "raise"
    THEN <<env, <<"ErrorResponse.load">>>>
    ELSE IF raise_for_status(resp.status)
         THEN <<mws_error_from_http(resp), <<"ErrorResponse.load", "raise_for_status">>>>
         ELSE LET d == decode(resp, hasAction) IN
              <<attach_response(d[1]), <<"ErrorResponse.load", "raise_for_status">> \o d[2]>>

\* Mutant: a 503 answer is followed by a second attempt.
http_requests_retry_503(description, resp) ==
    IF IsRaise(description) THEN 0 ELSE IF resp.status = 503 THEN 2 ELSE 1

\* _mws.py:199-216 : the number of calls of requests.request: none when the
\* encoding raised (line 203), else the one of line 216.
http_requests(description, resp) == IF IsRaise(description) THEN 0 ELSE 1

\* _mws.py:154-172  a client is constructed.
MWS_init(a) ==
    /\ ~init_called
    /\ ~mr_called
    /\ init_called' = TRUE
    /\ init_args' = a
    /\ client' = MWS_new(a)
    /\ init_raised' = IF MWS_new(a) = NoClient THEN "MWSError" ELSE None
    /\ UNCHANGED <<mr_called, mr_action, mr_response, mr_sent, mr_steps, mr_outcome,
                   dw_called, dw_data, dw_header, dw_outcome,
                   mr_extra, mr_cleaned, mr_method, mr_params, mr_description,
                   mr_signed, mr_url>>
    /\ UNCHANGED <<pollvars, fnvars, ordvars, instvars>>

\* _mws.py:174-247  make_request(extra_data, method): the request is built
\* and signed, sent once (line 216), and the response is handled.  ts is
\* what get_timestamp() returns, b64 the base64 text of the digest, resp the
\* response of the service.
make_request(extra_data, method, ts, b64, resp) ==
    /\ ~mr_called
    /\ client # NoClient
    /\ mr_called' = TRUE
    /\ mr_extra' = extra_data
    /\ mr_cleaned' = remove_empty(extra_data)
    /\ mr_method' = method
    /\ mr_response' = resp
    /\ LET params == request_params(client, ts, extra_data)
           description == request_description(params)
           hasAction == has_key(clean_extra_data(extra_data), Action)
       IN
         /\ mr_params' = params
         /\ mr_action' = hasAction
         /\ mr_sent' = http_requests(description, resp)
         /\ IF IsRaise(description)
            THEN /\ mr_description' = << >>
                 /\ mr_signed' = << >>
                 /\ mr_url' = << >>
                 /\ mr_outcome' = Exc("TypeError", "quote() doesn't support 'encoding' for bytes", FALSE)
                 /\ mr_steps' = << >>
            ELSE LET sig == calc_signature(client, method, description.s, b64)
                     h == handle_response(resp, hasAction)
                 IN
                   /\ mr_description' = description.s
                   /\ mr_signed' = sig.signed
                   /\ mr_url' = request_url(client, description.s, sig.value)
                   /\ mr_outcome' = h[1]
                   /\ mr_steps' = h[2]
    /\ UNCHANGED <<dw_called, dw_data, dw_header, dw_outcome,
                   client, init_called, init_args, init_raised>>
    /\ UNCHANGED <<pollvars, fnvars, ordvars, instvars>>

\* _mws.py:115-120  DataWrapper.__init__ called directly.
DataWrapper_init(x, md5) ==
    /\ ~dw_called
    /\ dw_called' = TRUE
    /\ dw_data' = x
    /\ dw_header' = md5
    /\ dw_outcome' = DataWrapper(x, md5)
    /\ UNCHANGED <<mr_called, mr_action, mr_response, mr_sent, mr_steps, mr_outcome,
                   client, init_called, init_args, init_raised,
                   mr_extra, mr_cleaned, mr_method, mr_params, mr_description,
                   mr_signed, mr_url>>
    /\ UNCHANGED <<pollvars, fnvars, ordvars, instvars>>

ReqNext ==
    \/ \E extra_data \in ReqExtraDatas, resp \in Responses :
          make_request(extra_data, GET, Timestamps1, B64Digest, resp)
    \/ \E x \in Texts, md5 \in Md5Headers : DataWrapper_init(x, md5)

(***************************************************************************)
(* parsers/errors.py: ErrorResponse.load and the four properties.          *)
(***************************************************************************)
\* The most Error elements a document holds.
MaxErrors == 2

\* An Error element: the text of its Type, Code and Message children, None
\* for a child that is absent.  The Message text keeps its line breaks and
\* indentation.
ErrorElements ==
    [Type : {None, "Sender"}, Code : {None, "InvalidParameterValue"},
     Message : {None, "\n    Value 2 is invalid.\n  "}]
    \cup {[Type |-> "Receiver", Code |-> "InternalError", Message |-> "later"]}

\* An ErrorResponse document: the Python type of the text it is given as,
\* how its root declares the default namespace (not at all, xmlns="..." or
\* xmlns='...'), its Error children and the text of its RequestID children.
ErrorDocuments ==
    [type : {"str", "bytes"}, xmlns : {"none", "double", "single"},
     errors : UNION {[1..n -> ErrorElements] : n \in 0..MaxErrors},
     request_ids : {<< >>, <<"test-request-id">>, <<"r1", "r2">>}]

\* errors.py:41-42 : re.sub('\s+xmlns=\".*?\"', '', xml_string).  The str
\* pattern is refused for bytes; it takes out a declaration written with
\* double quotes and leaves one written with single quotes.
re_sub_xmlns(doc) ==
    IF doc.type = "bytes" THEN PyRaise("TypeError")
    ELSE [doc EXCEPT !.xmlns = IF @ = "double" THEN "none" ELSE @]

\* base.py:6-15
first_element_or_none(element_list) ==
    IF Len(element_list) > 0 THEN element_list[1] ELSE None

\* errors.py:15, 20, 25 : xpath('//ErrorResponse/Error/<child>/text()') on the
\* parsed tree: the text nodes in document order.  The path names elements
\* of no namespace, so it selects nothing in a tree whose root kept a default
\* namespace.
xpath_error_text(tree, child) ==
    IF tree.xmlns # "none" THEN << >>
    ELSE LET texts == [i \in 1..Len(tree.errors) |->
                          CASE child = "Type" -> tree.errors[i].Type
                            [] child = "Code" -> tree.errors[i].Code
                            [] child = "Message" -> tree.errors[i].Message]
         IN SelectSeq(texts, LAMBDA x : x # None)

\* errors.py:30 : xpath('//ErrorResponse/RequestID/text()')
xpath_request_id_text(tree) == IF tree.xmlns # "none" THEN << >> ELSE tree.request_ids

\* errors.py:6-44 : ErrorResponse.load(xml_string) and the properties of the
\* object it returns, or the exception load raises.
ErrorResponse_properties(doc) ==
    LET tree == re_sub_xmlns(doc) IN
    IF tree = PyRaise("TypeError") THEN tree
    ELSE [t |-> "ErrorResponse",
          type |-> first_element_or_none(xpath_error_text(tree, "Type")),
          code |-> first_element_or_none(xpath_error_text(tree, "Code")),
          message |-> first_element_or_none(xpath_error_text(tree, "Message")),
          request_id |-> first_element_or_none(xpath_request_id_text(tree))]

(***************************************************************************)
(* parsers/reports/requestreport.py : FlatFileWrapper.offset_dt.  A         *)
(* datetime is the number of seconds since the epoch and the microsecond   *)
(* of that second; a timedelta is seconds and microseconds, normalised as  *)
(* Python does (0 <= microseconds < 1000000).                              *)
(***************************************************************************)
timedelta(seconds, microseconds) ==
    [seconds |-> seconds + (microseconds \div 1000000),
     microseconds |-> microseconds % 1000000]

\* datetime - datetime, datetime - timedelta and timedelta - timedelta.
sub(a, b) == timedelta(a.seconds - b.seconds, a.microseconds - b.microseconds)

\* datetime + timedelta.
add(a, b) == timedelta(a.seconds + b.seconds, a.microseconds + b.microseconds)

\* round(n / d) for d > 0, halves to the even neighbour as Python rounds.
round_half_even(n, d) ==
    LET q == n \div d
        r == n % d IN
    IF 2 * r < d THEN q
    ELSE IF 2 * r > d THEN q + 1
    ELSE IF q % 2 = 0 THEN q ELSE q + 1

\* requestreport.py:371 : round(offset.total_seconds())
round_total_seconds(offset) ==
    offset.seconds + round_half_even(offset.microseconds, 1000000)

\* datetime.timedelta(seconds=n / d) : the float is kept to the microsecond.
timedelta_of_seconds(n, d) ==
    timedelta(n \div d, round_half_even((n % d) * 1000000, d))

\* requestreport.py:365-372 : offset_dt, for the two clock readings of line 370.
offset_dt(dt, utcnow, now) ==
    LET offset == sub(utcnow, now)
        seconds_offset == timedelta_of_seconds(round_total_seconds(offset), 60) IN
    sub(dt, seconds_offset)

\* Local UTC offsets in minutes, from UTC-12:00 to UTC+14:00.
ZoneMinutes == {-720, -480, -300, 0, 60, 330, 345, 840}

\* datetime.utcnow() at line 370, and the time that passes before
\* datetime.now() is read, in microseconds.
UtcNows == {timedelta(1488363630, 0), timedelta(1488363630, 999998)}

Elapsed == {0, 5}

\* The datetimes parsed from a report.
ReportDatetimes == {timedelta(1488300000, 0), timedelta(1488326399, 250000)}

(***************************************************************************)
(* The submit call of BaseFeed.upload: generators/feeds.py,                *)
(* parsers/feeds/submitfeedresponse.py and Feeds.submit_feed.              *)
(***************************************************************************)
PurgeAndReplace == <<"P", "u", "r", "g", "e", "A", "n", "d", "R", "e", "p", "l", "a", "c", "e">>

\* feeds.py:61 : enumeration_value of UpdateInboundShipmentPlanFeed.
enumeration_value == <<"_", "P", "O", "S", "T", "_", "F", "L", "A", "T", "_", "F", "I", "L", "E", "_", "F", "B", "A", "_", "U", "P", "D", "A", "T", "E", "_", "I", "N", "B", "O", "U", "N", "D", "_", "P", "L", "A", "N", "_">>

\* feeds.py:14 : the default marketplace_ids.
marketplace_ids == Tuple(<<Str(<<"A", "T", "V", "P", "D", "K", "I", "K", "X", "0", "D", "E", "R">>)>>)

\* feeds.py:32-40 : the _purge_and_replace property.
_purge_and_replace(purge_and_replace) ==
    IF truthy(purge_and_replace) THEN Str(<<"t", "r", "u", "e">>) ELSE Str(<<"f", "a", "l", "s", "e">>)

\* _mws.py:310-322 : Feeds.submit_feed: the dict it builds for make_request,
\* and what calc_md5(feed) gives before make_request is called.
submit_feed(feed, feed_type, marketplaceids, purge) ==
    LET data == << <<Action, Str(<<"S", "u", "b", "m", "i", "t", "F", "e", "e", "d">>)>>, <<<<"F", "e", "e", "d", "T", "y", "p", "e">>, feed_type>>,
                   <<PurgeAndReplace, purge>> >>
        e == enumerate_param(<<"M", "a", "r", "k", "e", "t", "p", "l", "a", "c", "e", "I", "d", "L", "i", "s", "t", ".", "I", "d", ".">>, marketplaceids)
    IN [data |-> dict_update(data, e.items), md |-> calc_md5(feed)]

\* submitfeedresponse.py:95-99 : SubmitFeedResponse.request, up to the call
\* of submit_feed.
SubmitFeedResponse_request(feed_contents, feed_type, marketplaceids, purge) ==
    submit_feed(feed_contents, feed_type, marketplaceids,
                IF truthy(purge) THEN Str(<<"t", "r", "u", "e">>) ELSE Str(<<"f", "a", "l", "s", "e">>))

\* feeds.py:43 : the submit call of upload().
upload_request(purge_and_replace, feed) ==
    SubmitFeedResponse_request(feed, Str(enumeration_value), marketplace_ids,
                               _purge_and_replace(purge_and_replace))

\* What generate() returns: the flat-file text of a feed.
Feeds == {t \in Texts : t.kind = "flat"}

(***************************************************************************)
(* The list operations of _mws.py and their continuations, and the parsers *)
(* that call them.                                                         *)
(***************************************************************************)
\* The Action each operation puts in its dict.
ActionOf(operation) ==
    CASE operation = "get_feed_submission_list" -> <<"G", "e", "t", "F", "e", "e", "d", "S", "u", "b", "m", "i", "s", "s", "i", "o", "n", "L", "i", "s", "t">>
      [] operation = "get_submission_list_by_next_token" -> <<"G", "e", "t", "F", "e", "e", "d", "S", "u", "b", "m", "i", "s", "s", "i", "o", "n", "L", "i", "s", "t", "B", "y", "N", "e", "x", "t", "T", "o", "k", "e", "n">>
      [] operation = "get_report_list" -> <<"G", "e", "t", "R", "e", "p", "o", "r", "t", "L", "i", "s", "t">>
      [] operation = "get_report_list_by_next_token" -> <<"G", "e", "t", "R", "e", "p", "o", "r", "t", "L", "i", "s", "t", "B", "y", "N", "e", "x", "t", "T", "o", "k", "e", "n">>
      [] operation = "get_report_request_list" -> <<"G", "e", "t", "R", "e", "p", "o", "r", "t", "R", "e", "q", "u", "e", "s", "t", "L", "i", "s", "t">>
      [] operation = "get_report_request_list_by_next_token" -> <<"G", "e", "t", "R", "e", "p", "o", "r", "t", "R", "e", "q", "u", "e", "s", "t", "L", "i", "s", "t", "B", "y", "N", "e", "x", "t", "T", "o", "k", "e", "n">>
      [] operation = "list_orders" -> <<"L", "i", "s", "t", "O", "r", "d", "e", "r", "s">>
      [] operation = "list_orders_by_next_token" -> <<"L", "i", "s", "t", "O", "r", "d", "e", "r", "s", "B", "y", "N", "e", "x", "t", "T", "o", "k", "e", "n">>
      [] operation = "list_order_items" -> <<"L", "i", "s", "t", "O", "r", "d", "e", "r", "I", "t", "e", "m", "s">>
      [] operation = "list_order_items_by_next_token" -> <<"L", "i", "s", "t", "O", "r", "d", "e", "r", "I", "t", "e", "m", "s", "B", "y", "N", "e", "x", "t", "T", "o", "k", "e", "n">>
      [] operation = "list_marketplace_participations" -> <<"L", "i", "s", "t", "M", "a", "r", "k", "e", "t", "p", "l", "a", "c", "e", "P", "a", "r", "t", "i", "c", "i", "p", "a", "t", "i", "o", "n", "s">>
      [] operation = "list_marketplace_participations_by_next_token" -> <<"L", "i", "s", "t", "M", "a", "r", "k", "e", "t", "p", "l", "a", "c", "e", "P", "a", "r", "t", "i", "c", "i", "p", "a", "t", "i", "o", "n", "s">>
      [] operation = "list_inbound_shipments" -> <<"L", "i", "s", "t", "I", "n", "b", "o", "u", "n", "d", "S", "h", "i", "p", "m", "e", "n", "t", "s">>
      [] operation = "list_inbound_shipments_by_next_token" -> <<"L", "i", "s", "t", "I", "n", "b", "o", "u", "n", "d", "S", "h", "i", "p", "m", "e", "n", "t", "s", "B", "y", "N", "e", "x", "t", "T", "o", "k", "e", "n">>
      [] operation = "list_inbound_shipment_items" -> <<"L", "i", "s", "t", "I", "n", "b", "o", "u", "n", "d", "S", "h", "i", "p", "m", "e", "n", "t", "I", "t", "e", "m", "s">>
      [] operation = "list_inbound_shipment_items_by_next_token" -> <<"L", "i", "s", "t", "I", "n", "b", "o", "u", "n", "d", "S", "h", "i", "p", "m", "e", "n", "t", "I", "t", "e", "m", "s", "B", "y", "N", "e", "x", "t", "T", "o", "k", "e", "n">>
      [] operation = "list_inventory_supply" -> <<"L", "i", "s", "t", "I", "n", "v", "e", "n", "t", "o", "r", "y", "S", "u", "p", "p", "l", "y">>
      [] operation = "list_inventory_supply_by_next_token" -> <<"L", "i", "s", "t", "I", "n", "v", "e", "n", "t", "o", "r", "y", "S", "u", "p", "p", "l", "y", "B", "y", "N", "e", "x", "t", "T", "o", "k", "e", "n">>
      [] operation = "list_recommendations" -> <<"L", "i", "s", "t", "R", "e", "c", "o", "m", "m", "e", "n", "d", "a", "t", "i", "o", "n", "s">>
      [] operation = "list_recommendations_by_next_token" -> <<"L", "i", "s", "t", "R", "e", "c", "o", "m", "m", "e", "n", "d", "a", "t", "i", "o", "n", "s", "B", "y", "N", "e", "x", "t", "T", "o", "k", "e", "n">>

\* The operations that take a next token.
NextTokenOperations ==
    {"get_submission_list_by_next_token", "get_report_list_by_next_token", "get_report_request_list_by_next_token",
     "list_orders_by_next_token", "list_order_items_by_next_token", "list_marketplace_participations_by_next_token",
     "list_inbound_shipments_by_next_token", "list_inbound_shipment_items_by_next_token",
     "list_inventory_supply_by_next_token", "list_recommendations_by_next_token"}

\* _mws.py : data = dict(Action='...ByNextToken', NextToken=token), the dict
\* an operation that takes a next token hands to make_request.
by_next_token(operation, token) ==
    Dict("dict", << <<Action, Str(ActionOf(operation))>>, <<NextToken, token>> >>)

\* The parser classes that have a from_next_token method.
Parsers ==
    {"GetReportRequestList", "ListOrdersResponse", "ListOrderItemsResponse",
     "ListInboundShipmentResponse", "ListInboundShipmentItemsResponse"}

\* The operation the request method of a parser class calls.
request(cls) ==
    CASE cls = "GetReportRequestList" -> "get_report_request_list"
      [] cls = "ListOrdersResponse" -> "list_orders"
      [] cls = "ListOrderItemsResponse" -> "list_order_items"
      [] cls = "ListInboundShipmentResponse" -> "list_inbound_shipments"
      [] cls = "ListInboundShipmentItemsResponse" -> "list_inbound_shipment_items"

\* The operation the from_next_token method of a parser class calls, and the
\* dict that operation hands to make_request.
from_next_token(cls, next_token) ==
    by_next_token(CASE cls = "GetReportRequestList" -> "get_report_list_by_next_token"
                    [] cls = "ListOrdersResponse" -> "list_orders_by_next_token"
                    [] cls = "ListOrderItemsResponse" -> "list_order_items_by_next_token"
                    [] cls = "ListInboundShipmentResponse" -> "list_inbound_shipments_by_next_token"
                    [] cls = "ListInboundShipmentItemsResponse" -> "list_inbound_shipment_items_by_next_token",
                  next_token)

\* Next tokens as the service returns them.
NextTokens == {Str(<<"t", "+", "1", "/", "2", "=">>), Str(<<"n", "2">>)}

(***************************************************************************)
(* Calls of the parameter helpers.                                         *)
(***************************************************************************)
NoCall == "none"

FnInit ==
    /\ fn = NoCall
    /\ fn_args = << >>
    /\ fn_result = PyNone

\* One call of a helper: its name, its arguments and its result.
call(name, args, result) ==
    /\ fn = NoCall
    /\ fn' = name
    /\ fn_args' = args
    /\ fn_result' = result
    /\ UNCHANGED <<pollvars, reqvars, ordvars, instvars>>

call_enumerate_param(param, values) ==
    call("enumerate_param", <<Str(param), values>>, enumerate_param(param, values))

call_fmt_bool(b) == call("fmt_bool", <<b>>, fmt_bool(b))

call_update_report_acknowledgements(report_ids, acknowledged) ==
    call("update_report_acknowledgements", <<report_ids, acknowledged>>,
         update_report_acknowledgements(report_ids, acknowledged))

call_flattened(self) == call("flattened", <<self>>, Dict("dict", flattened(self)))

call_offset_dt(dt, utcnow, now) == call("offset_dt", <<dt, utcnow, now>>, offset_dt(dt, utcnow, now))

call_upload_request(purge_and_replace, feed) ==
    call("upload", <<purge_and_replace, feed>>, upload_request(purge_and_replace, feed))

call_by_next_token(operation, token) ==
    call(operation, <<token>>, by_next_token(operation, token))

call_from_next_token(cls, next_token) ==
    call("from_next_token", <<cls, next_token>>, from_next_token(cls, next_token))

call_ErrorResponse_load(doc) == call("ErrorResponse.load", <<doc>>, ErrorResponse_properties(doc))

(***************************************************************************)
(* Setter calls on an Address, a CreateFulfillmentOrderItem and a          *)
(* CreateFulfillmentOrder.                                                 *)
(***************************************************************************)
\* The number of setter calls explored.
MaxSetterCalls == 2

\* A str of n characters.
Text(n) == [i \in 1..n |-> "x"]

\* The classes whose objects the setters act on.
RecordClasses == {"Address", "CreateFulfillmentOrderItem", "CreateFulfillmentOrder"}

NoSetterCall == [n |-> 0, cls |-> "none", prop |-> "", val |-> PyNone, raised |-> None]

\* Address(), CreateFulfillmentOrderItem() and
\* CreateFulfillmentOrder('ak', 'sk', 'acct'), every keyword at its default.
OrdInit ==
    /\ fulfillment_order = new("CreateFulfillmentOrder", << >>).items
    /\ address = new("Address", << >>).items
    /\ item = new("CreateFulfillmentOrderItem", << >>).items
    /\ set_last = NoSetterCall

\* The items of the object of class cls.
object(cls) ==
    CASE cls = "Address" -> address
      [] cls = "CreateFulfillmentOrderItem" -> item
      [] cls = "CreateFulfillmentOrder" -> fulfillment_order

\* The object of class cls gets the items d; the other two are left alone.
store(cls, d) ==
    /\ address' = IF cls = "Address" THEN d ELSE address
    /\ item' = IF cls = "CreateFulfillmentOrderItem" THEN d ELSE item
    /\ fulfillment_order' = IF cls = "CreateFulfillmentOrder" THEN d ELSE fulfillment_order

\* obj.prop = val : the setter stores its result under the key of the
\* property, or raises and stores nothing.
set_property(cls, prop, val) ==
    LET p == property(cls, prop)
        r == setter(p, val)
    IN /\ set_last.n < MaxSetterCalls
       /\ store(cls, IF IsRaise(r) THEN object(cls) ELSE dict_set(object(cls), p.key, r))
       /\ set_last' = [n |-> set_last.n + 1, cls |-> cls, prop |-> prop, val |-> val,
                       raised |-> IF IsRaise(r) THEN r.t ELSE None]
       /\ UNCHANGED <<pollvars, reqvars, fnvars, instvars>>

\* fulfillment_outbound_shipment.py:894-904 : CreateFulfillmentOrder.add_notification_email
add_notification_email(email) ==
    LET key == <<"N", "o", "t", "i", "f", "i", "c", "a", "t", "i", "o", "n", "E", "m", "a", "i", "l", "L", "i", "s", "t">>
        r == raise_for_length(email, max_email_len, 0)
        old == get_or_none(fulfillment_order, key)
        list == IF truthy(old) THEN old.items ELSE << >>
    IN /\ set_last.n < MaxSetterCalls
       /\ store("CreateFulfillmentOrder",
                IF IsRaise(r) THEN fulfillment_order
                ELSE dict_set(fulfillment_order, key, List(Append(list, email))))
       /\ set_last' = [n |-> set_last.n + 1, cls |-> "CreateFulfillmentOrder",
                       prop |-> "add_notification_email", val |-> email,
                       raised |-> IF IsRaise(r) THEN r.t ELSE None]
       /\ UNCHANGED <<pollvars, reqvars, fnvars, instvars>>

\* An address mapping whose Name has n characters.
AddressNamed(n) == Dict("dict", dict_set(new("Address", << >>).items, <<"N", "a", "m", "e">>, Str(Text(n))))

\* The values tried on the setter of property p: at and just beyond each
\* limit, a valid and an invalid enumeration value, lists and a str of e-mail
\* addresses, address mappings.
SetterInputs(p) ==
    CASE p.kind = "length" ->
           {Str(Text(p.arg[1])), Str(Text(p.arg[1] + 1))}
           \cup (IF p.arg[2] > 0 THEN {Str(Text(p.arg[2] - 1))} ELSE {})
      [] p.kind = "enum" -> {Str(CHOOSE v \in p.arg : Str(v) # p.default), Str(lower(p.default.s))}
      [] p.kind = "plain" -> {Str(Text(max_sfoi_len + 1))}
      [] p.kind = "emails" ->
           {List(<<Str(Text(max_email_len))>>),
            Tuple(<<Str(<<"a", "@", "b", ".", "c">>), Str(Text(max_email_len + 1))>>),
            Str(<<"a", "@", "b", ".", "c">>)}
      [] p.kind = "load" /\ p.arg = "Address" -> {AddressNamed(max_name_len), AddressNamed(max_name_len + 1)}
      [] OTHER -> {}

\* The setters called: every property of the three classes that has inputs.
SetterCalls ==
    {c \in UNION {{[cls |-> cls, prop |-> Properties(cls)[i].prop] : i \in 1..Len(Properties(cls))} :
                  cls \in RecordClasses} :
        SetterInputs(property(c.cls, c.prop)) # {}}

(***************************************************************************)
(* Specifications.                                                         *)
(***************************************************************************)
vars == <<pollvars, reqvars, fnvars, ordvars, instvars>>

Init == PollInit /\ ReqInit /\ FnInit /\ OrdInit /\ InstInit

\* The pollers.
Next == PollNext

Spec == Init /\ [][Next]_vars

\* The poller is one blocking thread: once entered it keeps taking its next step.
FairSpec == Init /\ [][Next]_vars /\ WF_vars(PollerStep)

\* The transport.
ReqSpec == Init /\ [][ReqNext]_vars

\* The construction of a client and the building of one request.
BuildNext ==
    \/ \E a \in ClientArgs : MWS_init(a)
    \/ \E extra_data \in ExtraDatas, method \in {GET, POST}, ts \in Timestamps :
          make_request(extra_data, method, ts, B64Digest, NoResponse)

BuildSpec == Init /\ [][BuildNext]_vars

\* Two report pollers, interleaved.
InstSpec == Init /\ [][InstNext]_vars

\* The parameter helpers.
ParamNext ==
    \/ \E param \in EnumParams, values \in EnumValues : call_enumerate_param(param, values)
    \/ \E b \in Booleans : call_fmt_bool(b)
    \/ \E report_ids \in {Tuple(<< >>), List(<<Str(<<"7">>), Str(<<"8">>)>>)}, acknowledged \in Booleans \cup {PyNone} :
          call_update_report_acknowledgements(report_ids, acknowledged)
    \/ \E self \in Records : call_flattened(self)
    \/ \E doc \in ErrorDocuments : call_ErrorResponse_load(doc)
    \/ \E operation \in NextTokenOperations, token \in NextTokens : call_by_next_token(operation, token)
    \/ \E cls \in Parsers, next_token \in NextTokens : call_from_next_token(cls, next_token)
    \/ \E purge_and_replace \in Booleans, feed \in Feeds : call_upload_request(purge_and_replace, feed)
    \/ \E dt \in ReportDatetimes, utcnow \in UtcNows, zone \in ZoneMinutes, e \in Elapsed :
          call_offset_dt(dt, utcnow, add(utcnow, timedelta(60 * zone, e)))

ParamSpec == Init /\ [][ParamNext]_vars

\* The setters of the structured request records.
OrderNext ==
    \/ \E c \in SetterCalls : \E val \in SetterInputs(property(c.cls, c.prop)) :
          set_property(c.cls, c.prop, val)
    \/ \E email \in {Str(Text(max_email_len)), Str(Text(max_email_len + 1))} :
          add_notification_email(email)

OrderSpec == Init /\ [][OrderNext]_vars

(***************************************************************************)
(* Properties of the pollers.                                              *)
(***************************************************************************)
Last(q) == q[Len(q)]

\* The latest status record is terminal: its completion date is set.
SomeCompleted == Len(polls) > 0 /\ Last(polls).completed

\* The latest status record is terminal with the success sentinel.
TerminalDone == SomeCompleted /\ Last(polls).status = DONE

\* The latest status record is terminal with another status.
TerminalFailed == SomeCompleted /\ Last(polls).status # DONE

\* No status record so far carried a completion date.
AllNull == \A i \in 1..Len(polls) : ~polls[i].completed

StatusQueries ==
    {i \in 1..Len(calls) : calls[i][1] \in {"GetReportRequestList", "GetFeedSubmissionList"}}

\* wait() returned (to its caller, or into wait_and_download).
WaitReturned ==
    \/ op = "wait" /\ outcome.kind = "return"
    \/ op = "wait_and_download" /\ self_report_id # ""

\* The value wait() returned.
WaitValue == IF op = "wait" THEN outcome.value ELSE self_report_id

Succeeded == WaitReturned \/ (op = "upload" /\ outcome.kind = "return")

Failed == outcome.kind = "raise" /\ outcome.exc = "ValueError"

\* C1: wait() returns exactly when the latest status record has a completion
\* date and status _DONE_ (every earlier record had none); the value returned
\* is the generated report id of that record, and one status query was issued
\* per record.
C1_WaitReturnsTerminalId ==
    op \in {"wait", "wait_and_download"} =>
        /\ WaitReturned =>
              /\ TerminalDone
              /\ \A i \in 1..(Len(polls) - 1) : ~polls[i].completed
              /\ WaitValue = Last(polls).id
              /\ Cardinality(StatusQueries) = Len(polls)
        /\ (TerminalDone /\ pc # "w_loop") => WaitReturned

C1_Witness ==
    /\ op = "wait"
    /\ outcome.kind = "return"
    /\ Len(polls) = 3
    /\ polls[1].id = "g1"
    /\ polls[2].id = "g2"
    /\ polls[3].id = "g1"
    /\ polls[1].status = DONE
    /\ outcome.value = "g1"

\* C2: once a status record carries a completion date and a status other than
\* _DONE_, the poller (wait, wait_and_download, upload) ends with a ValueError
\* naming the job id and that status, hands out no result id, and issues no
\* remote call after that status query.
C2_TerminalFailureRaises ==
    TerminalFailed =>
        /\ pc \in {"w_loop", "u_loop", "end"}
        /\ pc = "end" => outcome = JobFailure(job, Last(polls).status)
        /\ pc # "end" => outcome = NoOutcome
        /\ self_report_id = ""
        /\ Len(calls) > 0
        /\ Last(calls)[1] \in {"GetReportRequestList", "GetFeedSubmissionList"}
        /\ Cardinality(StatusQueries) = Len(polls)

C2_Witness ==
    /\ op = "upload"
    /\ pc = "end"
    /\ Len(polls) = 2
    /\ polls[1].status = DONE
    /\ outcome = JobFailure("j2", "_IN_PROGRESS_")

\* C3: while no status record carried a completion date the poller has neither
\* returned nor raised the job-failure error, whatever the status strings
\* were, and its loop goes on to the next sleep and query.
C3_NullCompletionKeepsPolling ==
    (AllNull /\ pc \notin {"idle", "u_submit"}) =>
        /\ ~done
        /\ ~Succeeded
        /\ ~Failed
        /\ pc = "end" => outcome.exc \in RemoteErrors \cup {"IndexError"}
        /\ (pc \in {"w_loop", "u_loop"} /\ Len(polls) < MaxPolls) =>
              ENABLED (wait_sleep \/ upload_sleep)

C3_Witness ==
    /\ op = "wait"
    /\ pc = "w_loop"
    /\ Len(polls) = MaxPolls
    /\ AllNull
    /\ polls[1].status = DONE
    /\ polls[2].status = "_CANCELLED_"
    /\ sleeps = MaxPolls

\* C4: the poller ends SUCCEEDED or FAILED only after a status record with a
\* completion date, never both, and once such a record has arrived it does
\* end in one of the two.
C4_TerminatesIffCompleted ==
    /\ []((Succeeded \/ Failed) => SomeCompleted)
    /\ []~(Succeeded /\ Failed)
    /\ (SomeCompleted ~> (Succeeded \/ Failed))

C4_Witness ==
    /\ op = "wait"
    /\ Failed
    /\ Len(polls) = 3
    /\ Last(polls).status = "_CANCELLED_"

\* C5: the remote calls of wait_and_download are the status queries for the
\* report request id, then GetReport with the generated report id of the
\* terminal record, then UpdateReportAcknowledgements for the same id; a job
\* that ended FAILED sees neither GetReport nor the acknowledgement.
C5_DownloadOrder ==
    op = "wait_and_download" =>
        /\ \A i \in 1..Len(calls) :
              /\ calls[i][1] \in {"GetReportRequestList", "GetReport",
                                  "UpdateReportAcknowledgements"}
              /\ calls[i][1] = "GetReportRequestList" =>
                    /\ i <= Len(polls) + 1
                    /\ calls[i][2] = job
              /\ calls[i][1] = "GetReport" =>
                    /\ i = Len(polls) + 1
                    /\ TerminalDone
                    /\ calls[i][2] = Last(polls).id
              /\ calls[i][1] = "UpdateReportAcknowledgements" =>
                    /\ i = Len(polls) + 2
                    /\ calls[i - 1] = <<"GetReport", calls[i][2]>>
        /\ outcome.kind = "return" => Len(calls) = Len(polls) + 2
        /\ Failed => \A i \in 1..Len(calls) : calls[i][1] = "GetReportRequestList"

C5_Witness ==
    /\ op = "wait_and_download"
    /\ outcome.kind = "return"
    /\ Len(polls) = 2
    /\ polls[1].id = "g2"
    /\ calls[3] = <<"GetReport", "g1">>
    /\ calls[4] = <<"UpdateReportAcknowledgements", "g1">>

\* The acknowledgement call of wait_and_download was issued.
Acknowledged == op = "wait_and_download" /\ ack # ""

AckCalls == {i \in 1..Len(calls) : calls[i][1] = "UpdateReportAcknowledgements"}

HasEnvelope == mr_response.content.kind = "error" /\ mr_response.content.message # None

Is2xx(st) == 200 <= st /\ st < 300

\* C7: a response whose body is an ErrorResponse document with a non-empty
\* Message makes make_request raise that ErrorResponse, whatever the HTTP
\* status, before the status check and before any decoding; without a
\* non-empty Message no ErrorResponse is raised.
C7_EnvelopeRaisedFirst ==
    mr_called =>
        /\ HasEnvelope =>
              /\ mr_outcome = Exc("ErrorResponse", mr_response.content.message, FALSE)
              /\ mr_steps = <<"ErrorResponse.load">>
        /\ ~HasEnvelope => mr_outcome.exc # "ErrorResponse"

\* C8: a response with a non-2xx status and no non-empty error envelope makes
\* make_request raise MWSError whose message is the raw body text and whose
\* response attribute is the HTTP response.
C8_Non2xxRaisesMWSError ==
    (mr_called /\ ~Is2xx(mr_response.status) /\ ~HasEnvelope) =>
        mr_outcome = Exc("MWSError", mr_response.content.data, TRUE)

\* C9: a 2xx response whose body is no XML makes make_request return a
\* DataWrapper whose parsed value is the raw body.
C9_FlatBodyReturnsDataWrapper ==
    (mr_called /\ Is2xx(mr_response.status) /\ mr_response.content.kind = "flat") =>
        mr_outcome = Wrapper("DataWrapper", mr_response.content.data, TRUE)

\* C10: DataWrapper over raw bytes raises MWSError exactly when the header
\* holds content-md5 and the value differs from base64(MD5(bytes)); otherwise
\* the wrapper exists and exposes the bytes.
C10_Md5CheckedExactly ==
    (dw_called /\ dw_data.type = "bytes") =>
        IF dw_header # << >> /\ dw_header # B64MD5(dw_data.data)
        THEN dw_outcome.kind = "raise" /\ dw_outcome.exc = "MWSError"
        ELSE dw_outcome = Wrapper("DataWrapper", dw_data.data, FALSE)

(***************************************************************************)
(* Properties of the request builder.                                      *)
(***************************************************************************)
\* The values quote accepts with an encoding: every value of params is a str.
EncodingSucceeds == \A i \in 1..Len(mr_params) : mr_params[i][2].t = "str"

\* C11: a call of make_request issues at most one HTTP request: exactly one
\* when the parameter encoding succeeds, none when it raises, whatever the
\* response is and however the call ends; the count never changes after the
\* call.
C11_AtMostOneRequest ==
    /\ [](mr_sent <= 1)
    /\ [](~mr_called => mr_sent = 0)
    /\ [](mr_called => (mr_sent = 1 <=> EncodingSucceeds))
    /\ [][mr_called => mr_sent' = mr_sent]_vars

C11_Witness ==
    /\ mr_called
    /\ mr_sent = 1
    /\ mr_response.status = 503
    /\ mr_response.content.kind = "error"
    /\ mr_outcome.kind = "raise"

\* The empty values: None, '', 0, 0.0, False, an empty list or tuple.
IsEmptyValue(v) ==
    \/ v \in {PyNone, PyFalse, Str(<< >>), Bytes(<< >>), PyInt(<<"0">>),
              PyFloat(<<"0", ".", "0">>)}
    \/ v.t \in {"list", "tuple"} /\ v.items = << >>

\* The names make_request supplies itself.
BuiltInNames ==
    {AWSAccessKeyId, ACCOUNT_TYPE(client.cls), SignatureVersion, Timestamp, Version,
     SignatureMethod, MWSAuthToken}

\* The items of extra_data whose value is not empty, in their order.
NonEmptyItems(d) == SelectSeq(d, LAMBDA kv : ~IsEmptyValue(kv[2]))

split(s, c) ==
    LET at == {i \in 1..Len(s) : s[i] = c}
        nth(k) == IF k = 0 THEN 0
                  ELSE IF k > Cardinality(at) THEN Len(s) + 1
                  ELSE CHOOSE i \in at : Cardinality({j \in at : j < i}) = k - 1
    IN [k \in 1..(Cardinality(at) + 1) |-> SubSeq(s, nth(k - 1) + 1, nth(k) - 1)]

\* The positions at which p occurs in s.
Occurrences(s, p) == {i \in 1..Len(s) : startswith_at(s, p, i)}

Min(S) == CHOOSE x \in S : \A y \in S : x <= y

Max(S) == CHOOSE x \in S : \A y \in S : x >= y

\* The key=value items of a parameter string, as <<key, value>> pairs: the
\* string is cut at every '&' and each item at its first '='.
ParsedPairs(description) ==
    LET items == split(description, "&") IN
    [i \in 1..Len(items) |->
        LET eq == Min(Occurrences(items[i], <<"=">>)) IN
        <<SubSeq(items[i], 1, eq - 1), SubSeq(items[i], eq + 1, Len(items[i]))>>]

\* The built-in value of a name for the client and the timestamp of the call.
BuiltIn(k) == get(built_in_params(client, get(mr_params, Timestamp).s), k)

\* The other account-type name.
OtherAccountType == IF ACCOUNT_TYPE(client.cls) = Merchant THEN SellerId ELSE Merchant

\* C13 as stated: the final parameters hold the access key, the account id
\* under the ACCOUNT_TYPE name and not under the other one, SignatureVersion
\* '2', Timestamp, Version, SignatureMethod 'HmacSHA256', and MWSAuthToken
\* exactly when the client's auth token is not empty.
C13_BuiltInsAlways ==
    mr_called =>
        /\ has_key(mr_params, AWSAccessKeyId)
        /\ has_key(mr_params, ACCOUNT_TYPE(client.cls))
        /\ get(mr_params, ACCOUNT_TYPE(client.cls)) = Str(client.account_id)
        /\ ACCOUNT_TYPE(client.cls) =
              (IF client.cls \in {"Feeds", "Reports"} THEN <<"M", "e", "r", "c", "h", "a", "n", "t">> ELSE <<"S", "e", "l", "l", "e", "r", "I", "d">>)
        /\ ~has_key(mr_params, OtherAccountType)
        /\ has_key(mr_params, SignatureVersion)
        /\ get(mr_params, SignatureVersion) = Str(<<"2">>)
        /\ has_key(mr_params, Timestamp)
        /\ has_key(mr_params, Version)
        /\ has_key(mr_params, SignatureMethod)
        /\ get(mr_params, SignatureMethod) = Str(<<"H", "m", "a", "c", "S", "H", "A", "2", "5", "6">>)
        /\ has_key(mr_params, MWSAuthToken) <=> client.auth_token # << >>

\* C13 amended: the six names are always among the final parameters, with the
\* client's value (the constant '2', 'HmacSHA256') unless extra_data holds a
\* non-empty value under the same name, which replaces it; the other
\* account-type name and, for a client without auth token, MWSAuthToken are
\* present exactly when extra_data supplies them.
C13_BuiltInsUnlessSupplied ==
    mr_called =>
        /\ \A k \in {AWSAccessKeyId, ACCOUNT_TYPE(client.cls), SignatureVersion,
                     Timestamp, Version, SignatureMethod} :
              /\ has_key(mr_params, k)
              /\ get(mr_params, k) =
                    (IF has_key(mr_cleaned, k) THEN get(mr_cleaned, k) ELSE BuiltIn(k))
        /\ ACCOUNT_TYPE(client.cls) =
              (IF client.cls \in {"Feeds", "Reports"} THEN <<"M", "e", "r", "c", "h", "a", "n", "t">> ELSE <<"S", "e", "l", "l", "e", "r", "I", "d">>)
        /\ ~has_key(mr_cleaned, ACCOUNT_TYPE(client.cls)) =>
              get(mr_params, ACCOUNT_TYPE(client.cls)) = Str(client.account_id)
        /\ ~has_key(mr_cleaned, SignatureVersion) =>
              get(mr_params, SignatureVersion) = Str(<<"2">>)
        /\ ~has_key(mr_cleaned, SignatureMethod) =>
              get(mr_params, SignatureMethod) = Str(<<"H", "m", "a", "c", "S", "H", "A", "2", "5", "6">>)
        /\ ~has_key(mr_cleaned, AWSAccessKeyId) =>
              get(mr_params, AWSAccessKeyId) = Str(client.access_key)
        /\ ~has_key(mr_cleaned, Version) =>
              get(mr_params, Version) = Str(client.version)
        /\ has_key(mr_params, OtherAccountType) <=> has_key(mr_cleaned, OtherAccountType)
        /\ has_key(mr_params, MWSAuthToken) <=>
              (client.auth_token # << >> \/ has_key(mr_cleaned, MWSAuthToken))
        /\ (client.auth_token # << >> /\ ~has_key(mr_cleaned, MWSAuthToken)) =>
              get(mr_params, MWSAuthToken) = Str(client.auth_token)

C13_Witness ==
    /\ mr_sent = 1
    /\ client.cls = "Feeds"
    /\ client.auth_token = <<"t", "o", "k">>
    /\ get(mr_params, Merchant) = Str(<<"o", "t", "h", "e", "r">>)
    /\ get(mr_params, SellerId) = Str(<<"o", "t", "h", "e", "r">>)
    /\ get(mr_params, SignatureVersion) = Str(<<"1">>)
    /\ get(mr_params, MWSAuthToken) = Str(<<"t", "o", "k">>)

\* C14: the parameter string lists every parameter once as key=value, the
\* value percent-encoded, joined by '&', the keys in strictly ascending
\* code-point order whatever the insertion order of extra_data was; the
\* string is therefore a function of the mapping alone.
C14_CanonicalOrder ==
    mr_sent = 1 =>
        LET pairs == ParsedPairs(mr_description) IN
        /\ Len(pairs) = Len(mr_params)
        /\ \A i \in 1..(Len(pairs) - 1) : str_less(pairs[i][1], pairs[i + 1][1])
        /\ \A i \in 1..Len(mr_params) :
              \E j \in 1..Len(pairs) :
                  /\ pairs[j][1] = mr_params[i][1]
                  /\ pairs[j][2] = quote_chars(mr_params[i][2].s, {})
        /\ \A i \in 1..Len(mr_description) : mr_description[i] \notin {" ", "+", "/", ":"}

C14_Witness ==
    /\ mr_sent = 1
    /\ client = MWS_new(DefaultArgs)
    /\ Len(mr_extra) = 3
    /\ mr_extra[1][1] = <<"A", "m", "a", "z", "o", "n", "O", "r", "d", "e", "r", "I", "d", ".", "I", "d", ".", "2">>
    /\ mr_extra[2][1] = <<"A", "m", "a", "z", "o", "n", "O", "r", "d", "e", "r", "I", "d", ".", "I", "d", ".", "1", "0">>
    /\ mr_extra[3][1] = Action
    /\ mr_description =
         <<"A", "W", "S", "A", "c", "c", "e", "s", "s", "K", "e", "y", "I", "d", "=", "a", "k", "&", "A", "c", "t", "i", "o", "n", "=", "G", "e", "t", "O", "r", "d", "e", "r", "&", "A", "m", "a", "z", "o", "n", "O", "r", "d", "e", "r", "I", "d", ".", "I", "d", ".", "1", "0", "=", "9", "0", "2", "-", "3", "&", "A", "m", "a", "z", "o", "n", "O", "r", "d", "e", "r", "I", "d", ".", "I", "d", ".", "2", "=", "9", "0", "2", "-", "1", "%", "2", "0", "b", "&", "M", "e", "r", "c", "h", "a", "n", "t", "=", "a", "c", "c", "t", "&", "S", "i", "g", "n", "a", "t", "u", "r", "e", "M", "e", "t", "h", "o", "d", "=", "H", "m", "a", "c", "S", "H", "A", "2", "5", "6", "&", "S", "i", "g", "n", "a", "t", "u", "r", "e", "V", "e", "r", "s", "i", "o", "n", "=", "2", "&", "T", "i", "m", "e", "s", "t", "a", "m", "p", "=", "2", "0", "1", "7", "-", "0", "3", "-", "0", "1", "T", "1", "0", "%", "3", "A", "2", "0", "%", "3", "A", "3", "0", "Z", "&", "V", "e", "r", "s", "i", "o", "n", "=", "2", "0", "0", "9", "-", "0", "1", "-", "0", "1">>

\* The part of a URL between its first '?' and its last '&Signature='.
UrlParameters(url) ==
    LET q == Min(Occurrences(url, <<"?">>))
        s == Max(Occurrences(url, <<"&", "S", "i", "g", "n", "a", "t", "u", "r", "e", "=">>)) IN
    SubSeq(url, q + 1, s - 1)

\* C15: the parameter string of the URL, between '?' and '&Signature=', is
\* the string calc_signature received and signed as the last line of its
\* input, parameter for parameter, and no Signature parameter is in it.
C15_SignedIsSent ==
    mr_sent = 1 =>
        LET lines == split(mr_signed, "\n") IN
        /\ Len(lines) = 4
        /\ UrlParameters(mr_url) = lines[4]
        /\ UrlParameters(mr_url) = mr_description
        /\ ParsedPairs(UrlParameters(mr_url)) = ParsedPairs(lines[4])
        /\ \A i \in 1..Len(ParsedPairs(lines[4])) :
              ParsedPairs(lines[4])[i][1] # <<"S", "i", "g", "n", "a", "t", "u", "r", "e">>
        /\ Cardinality(Occurrences(mr_url, <<"&", "S", "i", "g", "n", "a", "t", "u", "r", "e", "=">>)) = 1

C15_Witness ==
    /\ mr_sent = 1
    /\ client = MWS_new(DefaultArgs)
    /\ mr_method = GET
    /\ mr_signed =
         <<"G", "E", "T", "\n", "m", "w", "s", ".", "a", "m", "a", "z", "o", "n", "s", "e", "r", "v", "i", "c", "e", "s", ".", "c", "o", "m", "\n", "/", "\n", "A", "W", "S", "A", "c", "c", "e", "s", "s", "K", "e", "y", "I", "d", "=", "a", "k", "&", "A", "c", "t", "i", "o", "n", "=", "G", "e", "t", "R", "e", "p", "o", "r", "t", "&", "M", "e", "r", "c", "h", "a", "n", "t", "=", "a", "c", "c", "t", "&", "R", "e", "p", "o", "r", "t", "I", "d", "=", "r", "%", "2", "B", "1", "%", "2", "F", "2", "%", "3", "D", "&", "S", "i", "g", "n", "a", "t", "u", "r", "e", "M", "e", "t", "h", "o", "d", "=", "H", "m", "a", "c", "S", "H", "A", "2", "5", "6", "&", "S", "i", "g", "n", "a", "t", "u", "r", "e", "V", "e", "r", "s", "i", "o", "n", "=", "2", "&", "T", "i", "m", "e", "s", "t", "a", "m", "p", "=", "2", "0", "1", "7", "-", "0", "3", "-", "0", "1", "T", "1", "0", "%", "3", "A", "2", "0", "%", "3", "A", "3", "0", "Z", "&", "V", "e", "r", "s", "i", "o", "n", "=", "2", "0", "0", "9", "-", "0", "1", "-", "0", "1">>
    /\ UrlParameters(mr_url) =
         <<"A", "W", "S", "A", "c", "c", "e", "s", "s", "K", "e", "y", "I", "d", "=", "a", "k", "&", "A", "c", "t", "i", "o", "n", "=", "G", "e", "t", "R", "e", "p", "o", "r", "t", "&", "M", "e", "r", "c", "h", "a", "n", "t", "=", "a", "c", "c", "t", "&", "R", "e", "p", "o", "r", "t", "I", "d", "=", "r", "%", "2", "B", "1", "%", "2", "F", "2", "%", "3", "D", "&", "S", "i", "g", "n", "a", "t", "u", "r", "e", "M", "e", "t", "h", "o", "d", "=", "H", "m", "a", "c", "S", "H", "A", "2", "5", "6", "&", "S", "i", "g", "n", "a", "t", "u", "r", "e", "V", "e", "r", "s", "i", "o", "n", "=", "2", "&", "T", "i", "m", "e", "s", "t", "a", "m", "p", "=", "2", "0", "1", "7", "-", "0", "3", "-", "0", "1", "T", "1", "0", "%", "3", "A", "2", "0", "%", "3", "A", "3", "0", "Z", "&", "V", "e", "r", "s", "i", "o", "n", "=", "2", "0", "0", "9", "-", "0", "1", "-", "0", "1">>

\* The domain without its scheme: what follows the first '://', if any.
WithoutScheme(domain) ==
    IF Occurrences(domain, <<":", "/", "/">>) = {} THEN domain
    ELSE SubSeq(domain, Min(Occurrences(domain, <<":", "/", "/">>)) + 3, Len(domain))

\* C16: the signed string is METHOD, newline, the domain with its scheme
\* stripped and lower-cased, newline, the path, newline, the parameter string
\* as it was passed in; the host line holds no scheme prefix and no
\* upper-case character, whatever the case of the configured domain.
C16_SignedString ==
    mr_sent = 1 =>
        LET lines == split(mr_signed, "\n") IN
        /\ Len(lines) = 4
        /\ lines[1] = mr_method
        /\ lines[2] = lower(WithoutScheme(client.domain))
        /\ lines[3] = client.uri
        /\ lines[4] = mr_description
        /\ Occurrences(lines[2], <<":", "/", "/">>) = {}
        /\ \A i \in 1..Len(lines[2]) : ~(ord(lines[2][i]) >= 65 /\ ord(lines[2][i]) <= 90)

\* The regions of the table.
KnownRegions == {<<"C", "A">>, <<"U", "S">>, <<"D", "E">>, <<"E", "S">>, <<"F", "R">>, <<"I", "N">>, <<"I", "T">>, <<"U", "K">>, <<"J", "P">>, <<"C", "N">>, <<"M", "X">>}

\* C17: a constructor call raises MWSError, with no request made, exactly
\* when no domain override is given and the region is none of the eleven of
\* the table; otherwise the domain of the client is the override when one is
\* given and the URL of the region when not.
C17_RegionOrDomain ==
    init_called =>
        /\ init_raised = "MWSError" <=>
              (init_args.domain = << >> /\ init_args.region \notin KnownRegions)
        /\ init_raised \in {None, "MWSError"}
        /\ init_raised = "MWSError" => (client = NoClient /\ mr_sent = 0 /\ ~mr_called)
        /\ init_raised = None =>
              /\ client # NoClient
              /\ client.domain = IF init_args.domain # << >> THEN init_args.domain
                                 ELSE get(MARKETPLACES, init_args.region)
        /\ (init_args.domain = << >> /\ init_args.region \in {<<"D", "E">>, <<"E", "S">>, <<"F", "R">>, <<"I", "T">>, <<"U", "K">>}) =>
              client.domain = <<"h", "t", "t", "p", "s", ":", "/", "/", "m", "w", "s", "-", "e", "u", ".", "a", "m", "a", "z", "o", "n", "s", "e", "r", "v", "i", "c", "e", "s", ".", "c", "o", "m">>

C17_Witness ==
    /\ init_called
    /\ init_args.region = <<"U", "S">>
    /\ init_args.domain = <<"h", "t", "t", "p", ":", "/", "/", "l", "o", "c", "a", "l", "h", "o", "s", "t", ":", "8", "0", "8", "0">>
    /\ client.domain = <<"h", "t", "t", "p", ":", "/", "/", "l", "o", "c", "a", "l", "h", "o", "s", "t", ":", "8", "0", "8", "0">>
    /\ mr_sent = 1

(***************************************************************************)
(* Properties of the parameter helpers.                                    *)
(***************************************************************************)
\* The number a decimal text denotes, or -1 when it is not the canonical
\* decimal text of a natural number.
RECURSIVE digits_value(_)
digits_value(s) ==
    IF Len(s) = 0 THEN 0
    ELSE 10 * digits_value(SubSeq(s, 1, Len(s) - 1))
         + (CHOOSE d \in 0..9 : Digits[d + 1] = s[Len(s)])

to_number(s) ==
    IF Len(s) = 0 \/ (\E i \in 1..Len(s) : \A d \in 1..10 : Digits[d] # s[i]) THEN -1
    ELSE IF Len(s) > 1 /\ s[1] = "0" THEN -1
    ELSE digits_value(s)

\* param without its final dot, if it has one.
Stem(param) == IF endswith(param, <<".">>) THEN SubSeq(param, 1, Len(param) - 1) ELSE param

\* key is Stem(param), one dot, and the decimal text of a number: that number.
MemberIndex(param, key) ==
    LET stem == Stem(param) IN
    IF Len(key) > Len(stem) + 1 /\ SubSeq(key, 1, Len(stem) + 1) = stem \o <<".">>
    THEN to_number(SubSeq(key, Len(stem) + 2, Len(key)))
    ELSE -1

\* C18: enumerate_param(param, values) returns {} for None and otherwise one
\* entry per element, keyed param.1, param.2, ... (numbered from 1, with one dot
\* between param and the number whether or not param ends with a dot), so that
\* the values read in the order of their numbers are the given sequence.
C18_EnumerateParam ==
    (fn = "enumerate_param" /\ ~IsRaise(fn_result)) =>
        LET param == fn_args[1].s
            values == fn_args[2]
            elems == IF values = PyNone THEN << >> ELSE iterate(values)
            d == fn_result.items
        IN /\ fn_result.t = "dict"
           /\ Len(d) = Len(elems)
           /\ \A i \in 1..Len(d) : MemberIndex(param, d[i][1]) \in 1..Len(elems)
           /\ \A n \in 1..Len(elems) :
                  \E i \in 1..Len(d) :
                      /\ MemberIndex(param, d[i][1]) = n
                      /\ d[i][2] = elems[n]
                      /\ \A j \in 1..Len(d) : MemberIndex(param, d[j][1]) = n => j = i

\* A tuple of eleven members was enumerated under a param without the final
\* dot: the last key has a two-digit number.
C18_Witness ==
    /\ fn = "enumerate_param"
    /\ fn_args[2] = Tuple(ElevenMembers)
    /\ ~endswith(fn_args[1].s, <<".">>)
    /\ Len(fn_result.items) = 11
    /\ fn_result.items[11][1] = fn_args[1].s \o <<".", "1", "1">>

\* The two literals a boolean request parameter may be.
BooleanLiterals == {Str(<<"t", "r", "u", "e">>), Str(<<"f", "a", "l", "s", "e">>)}

\* C19: every boolean field that reaches the request parameters is rendered
\* as 'true' or 'false', never as 'True' or 'False': the result of fmt_bool,
\* the Acknowledged parameter of update_report_acknowledgements, and
\* IsCODRequired in a flattened CODSettings or CreateFulfillmentOrder.
C19_BooleansLowerCase ==
    /\ fn = "fmt_bool" => fn_result \in BooleanLiterals
    /\ (fn = "update_report_acknowledgements" /\ ~IsRaise(fn_result)) =>
           /\ has_key(fn_result.items, AcknowledgedKey)
           /\ get(fn_result.items, AcknowledgedKey) \in BooleanLiterals
    /\ fn = "flattened" =>
           \A i \in 1..Len(fn_result.items) :
               /\ fn_result.items[i][2] \notin {Str(<<"T", "r", "u", "e">>), Str(<<"F", "a", "l", "s", "e">>)}
               /\ endswith(fn_result.items[i][1], <<"I", "s", "C", "O", "D", "R", "e", "q", "u", "i", "r", "e", "d">>) =>
                      fn_result.items[i][2] \in BooleanLiterals

(***************************************************************************)
(* Properties of the setters of the structured request records.            *)
(***************************************************************************)
\* The value the object of class cls holds under the key of property p
\* satisfies the constraint its setter checks.
Satisfies(cls, p) ==
    LET v == get(object(cls), p.key) IN
    CASE p.kind = "length" -> sized(v) /\ len(v) >= p.arg[2] /\ len(v) <= p.arg[1]
      [] p.kind = "enum" -> v.t = "str" /\ v.s \in p.arg
      [] p.kind = "emails" ->
           v.t = "list" /\ \A i \in 1..Len(v.items) :
                               sized(v.items[i]) /\ len(v.items[i]) <= max_email_len
      [] OTHER -> TRUE

\* The fields named in the examples, and the limit the class declares for
\* SellerFulfillmentOrderId.
ExampleConstraints ==
    /\ get(fulfillment_order, <<"F", "u", "l", "f", "i", "l", "l", "m", "e", "n", "t", "A", "c", "t", "i", "o", "n">>) \in {Str(<<"S", "h", "i", "p">>), Str(<<"H", "o", "l", "d">>)}
    /\ Len(get(address, <<"N", "a", "m", "e">>).s) <= 50
    /\ Len(get(fulfillment_order, <<"D", "i", "s", "p", "l", "a", "y", "a", "b", "l", "e", "O", "r", "d", "e", "r", "I", "d">>).s) \in 1..40
    /\ Len(get(get(fulfillment_order, <<"D", "e", "s", "t", "i", "n", "a", "t", "i", "o", "n", "A", "d", "d", "r", "e", "s", "s">>).items, <<"N", "a", "m", "e">>).s) <= 50

DeclaredOrderIdLimit ==
    Len(get(fulfillment_order, <<"S", "e", "l", "l", "e", "r", "F", "u", "l", "f", "i", "l", "l", "m", "e", "n", "t", "O", "r", "d", "e", "r", "I", "d">>).s) <= max_sfoi_len

\* C20: a setter of an Address, a CreateFulfillmentOrderItem or a
\* CreateFulfillmentOrder that is given a value violating its length or
\* enumeration constraint raises ValueError, stores nothing and sends
\* nothing, so after any sequence of setter calls every constrained field
\* satisfies its constraint, SellerFulfillmentOrderId (max_sfoi_len) included.
C20_SettersKeepConstraints ==
    /\ [](\A cls \in RecordClasses : \A i \in 1..Len(Properties(cls)) :
              Satisfies(cls, Properties(cls)[i]))
    /\ []ExampleConstraints
    /\ []DeclaredOrderIdLimit
    /\ [](mr_sent = 0)
    /\ [][set_last'.raised # None =>
              /\ set_last'.raised = "ValueError"
              /\ UNCHANGED <<fulfillment_order, address, item>>]_vars

(***************************************************************************)
(* Properties of ErrorResponse.load.                                       *)
(***************************************************************************)
\* The text of the first child of that name among the Error elements of the
\* document, None when no Error element has one.
FirstErrorChild(doc, child) ==
    LET has == {i \in 1..Len(doc.errors) :
                   CASE child = "Type" -> doc.errors[i].Type # None
                     [] child = "Code" -> doc.errors[i].Code # None
                     [] child = "Message" -> doc.errors[i].Message # None}
        i == CHOOSE j \in has : \A k \in has : j <= k
    IN IF has = {} THEN None
       ELSE CASE child = "Type" -> doc.errors[i].Type
              [] child = "Code" -> doc.errors[i].Code
              [] child = "Message" -> doc.errors[i].Message

\* C21: ErrorResponse.load on an ErrorResponse document, with or without a
\* default xmlns declaration on its root, gives an object whose type, code,
\* message and request_id are the text of the first Error/Type, Error/Code,
\* Error/Message and RequestID element (the message verbatim), None for an
\* element that is absent.
C21_ErrorFields ==
    fn = "ErrorResponse.load" =>
        LET doc == fn_args[1] IN
        /\ ~IsRaise(fn_result)
        /\ fn_result.type = FirstErrorChild(doc, "Type")
        /\ fn_result.code = FirstErrorChild(doc, "Code")
        /\ fn_result.message = FirstErrorChild(doc, "Message")
        /\ fn_result.request_id = IF Len(doc.request_ids) = 0 THEN None ELSE doc.request_ids[1]

(***************************************************************************)
(* Properties of the submit call and of the status queries.                *)
(***************************************************************************)
\* The positions of the calls named name in the history of remote calls.
CallsNamed(name) == {k \in 1..Len(calls) : calls[k][1] = name}

\* C23: upload issues the submit call exactly once, before the first status
\* query, and never again while polling; every status query of upload is
\* filtered by the feed submission id that submit call returned, and every
\* status query of wait by the report request id of its submit response.
C23_SubmitOnceThenFilteredQueries ==
    /\ op = "upload" =>
          /\ CallsNamed("SubmitFeed") = (IF pc = "u_submit" THEN {} ELSE {1})
          /\ \A k \in CallsNamed("GetFeedSubmissionList") : k > 1 /\ calls[k][2] = job
          /\ Cardinality(CallsNamed("GetFeedSubmissionList")) >= Len(polls)
    /\ op \in {"wait", "wait_and_download"} =>
          /\ CallsNamed("SubmitFeed") = {}
          /\ \A k \in CallsNamed("GetReportRequestList") : calls[k][2] = job
          /\ Cardinality(CallsNamed("GetReportRequestList")) >= Len(polls)

\* upload has polled three times after its one submit call.
C23_Witness ==
    /\ op = "upload"
    /\ Len(polls) = 3
    /\ Len(calls) = 4
    /\ calls[1][1] = "SubmitFeed"
    /\ job \in JobIds

(***************************************************************************)
(* Properties of the Signature value of the URL.                           *)
(***************************************************************************)
\* The part of a URL after its last '&Signature='.
UrlSignature(url) ==
    LET s == Max(Occurrences(url, <<"&", "S", "i", "g", "n", "a", "t", "u", "r", "e", "=">>)) IN
    SubSeq(url, s + 11, Len(url))

\* One percent-encoding of base64 text: '+' and '=' become their escapes,
\* letters, digits and '/' stay.
RECURSIVE EncodedOnce(_)
EncodedOnce(b64) ==
    IF b64 = << >> THEN << >>
    ELSE (CASE Head(b64) = "+" -> <<"%", "2", "B">>
            [] Head(b64) = "=" -> <<"%", "3", "D">>
            [] OTHER -> <<Head(b64)>>) \o EncodedOnce(Tail(b64))

\* C24: the Signature value of the URL is the base64 digest percent-encoded
\* exactly once: '+' and '=' appear as %2B and %3D, and no '%' of that
\* encoding is encoded again (no %25 appears).
C24_SignatureEncodedOnce ==
    mr_sent = 1 =>
        /\ UrlSignature(mr_url) = EncodedOnce(B64Digest)
        /\ Occurrences(UrlSignature(mr_url), <<"%", "2", "5">>) = {}

(***************************************************************************)
(* Properties of DictParam.flattened.                                      *)
(***************************************************************************)
\* C25: flattened() returns a flat mapping with no empty value: every key
\* holds a non-empty str, whether the value came from the top level, from a
\* nested record or from an element of a list.
C25_FlattenedNoEmptyValue ==
    fn = "flattened" =>
        /\ fn_result.t = "dict"
        /\ \A i \in 1..Len(fn_result.items) :
              /\ fn_result.items[i][2].t = "str"
              /\ fn_result.items[i][2].s # << >>
              /\ fn_result.items[i][1] # << >>

(***************************************************************************)
(* Properties of FlatFileWrapper.offset_dt.                                *)
(***************************************************************************)
\* The local UTC offset of two clock readings in whole seconds: the local
\* time read just after the UTC time, less the UTC time.
LocalOffsetSeconds(utcnow, now) == sub(now, utcnow).seconds

\* C26: offset_dt(dt) is dt less the full local UTC offset, dt - (utcnow -
\* now): for a local offset of H hours the result differs from dt by
\* exactly 3600 * H seconds.
C26_FullOffsetApplied ==
    fn = "offset_dt" =>
        sub(fn_result, fn_args[1]) =
            timedelta(LocalOffsetSeconds(fn_args[2], fn_args[3]), 0)

(***************************************************************************)
(* Properties of the purge flag of a feed.                                 *)
(***************************************************************************)
\* C27: the submit call of upload reaches make_request, with
\* PurgeAndReplace 'false' for a feed built with purge_and_replace=False and
\* 'true' for one built with purge_and_replace=True.
C27_PurgeFlagSurvives ==
    fn = "upload" =>
        /\ fn_result.md.kind # "raise"
        /\ get(fn_result.data, PurgeAndReplace) =
              (IF fn_args[1] = PyTrue THEN Str(<<"t", "r", "u", "e">>) ELSE Str(<<"f", "a", "l", "s", "e">>))

(***************************************************************************)
(* Properties of the merge of the caller's parameters over the built-in    *)
(* ones.                                                                   *)
(***************************************************************************)
\* The values a parameter string holds under the name k.
ValuesUnder(description, k) ==
    LET pairs == ParsedPairs(description) IN
    {pairs[i][2] : i \in {j \in 1..Len(pairs) : pairs[j][1] = k}}

\* The caller supplies a non-empty value under the name k.
Supplied(k) == has_key(mr_extra, k) /\ truthy(get(mr_extra, k))

ListOperation(operation) ==
    CASE operation = "get_submission_list_by_next_token" -> "get_feed_submission_list"
      [] operation = "get_report_list_by_next_token" -> "get_report_list"
      [] operation = "get_report_request_list_by_next_token" -> "get_report_request_list"
      [] operation = "list_orders_by_next_token" -> "list_orders"
      [] operation = "list_order_items_by_next_token" -> "list_order_items"
      [] operation = "list_marketplace_participations_by_next_token" -> "list_marketplace_participations"
      [] operation = "list_inbound_shipments_by_next_token" -> "list_inbound_shipments"
      [] operation = "list_inbound_shipment_items_by_next_token" -> "list_inbound_shipment_items"
      [] operation = "list_inventory_supply_by_next_token" -> "list_inventory_supply"
      [] operation = "list_recommendations_by_next_token" -> "list_recommendations"

\* C29: an operation that takes a next token sends the Action of its own
\* list operation followed by ByNextToken, with the token it was given; the
\* from_next_token of a parser class sends the Action of the list its
\* request method started followed by ByNextToken.
C29_ContinuesOwnList ==
    /\ fn \in NextTokenOperations =>
          /\ get(fn_result.items, Action) = Str(ActionOf(ListOperation(fn)) \o <<"B", "y", "N", "e", "x", "t", "T", "o", "k", "e", "n">>)
          /\ get(fn_result.items, NextToken) = fn_args[1]
    /\ fn = "from_next_token" =>
          /\ get(fn_result.items, Action) = Str(ActionOf(request(fn_args[1])) \o <<"B", "y", "N", "e", "x", "t", "T", "o", "k", "e", "n">>)
          /\ get(fn_result.items, NextToken) = fn_args[2]

(***************************************************************************)
(* The report poller and the feed poller as one state machine over the     *)
(* poll records.                                                           *)
(***************************************************************************)
\* The state of the common machine after a sequence of poll records: it
\* polls until a record has a completion timestamp, and that record's status
\* decides between success and failure.
Phase(records) ==
    IF records = << >> \/ ~Last(records).completed THEN "POLLING"
    ELSE IF Last(records).status = DONE THEN "SUCCEEDED" ELSE "FAILED"

\* The poller is inside its polling loop or has left it through the code
\* after the loop, no remote call having raised.
InPollingMachine ==
    \/ pc \in {"w_loop", "w_poll", "u_loop", "u_poll"}
    \/ pc = "end" /\ op \in {"wait", "upload"} /\ outcome \notin {Raised(e) : e \in RemoteErrors \cup {"IndexError"}}

\* C22: wait and upload implement the same state machine over the poll
\* records (completion timestamp or none, status): each is in the state
\* Phase gives for the records it was fed, so both keep polling, succeed or
\* fail at the same poll, and each sleeps once before every status query.
C22_SameMachine ==
    InPollingMachine =>
        /\ done = (Phase(polls) # "POLLING")
        /\ \A k \in 1..(Len(polls) - 1) : Phase(SubSeq(polls, 1, k)) = "POLLING"
        /\ polls # << >> => status = Last(polls).status
        /\ pc = "end" =>
              /\ Phase(polls) # "POLLING"
              /\ outcome.kind = "return" <=> Phase(polls) = "SUCCEEDED"
              /\ (outcome.kind = "raise" /\ outcome.exc = "ValueError") <=> Phase(polls) = "FAILED"
        /\ sleeps = Len(polls) + (IF pc \in {"w_poll", "u_poll"} THEN 1 ELSE 0)
        /\ Len(calls) = Len(polls) + (IF op = "upload" THEN 1 ELSE 0)

\* upload has left its loop with a failure at its third poll, a poll at
\* which wait fed the same records fails as well.
C22_Witness ==
    /\ op = "upload"
    /\ pc = "end"
    /\ Len(polls) = 3
    /\ Phase(polls) = "FAILED"
    /\ sleeps = 3
    /\ outcome = JobFailure(job, "_CANCELLED_")

(***************************************************************************)
(* Properties of two report pollers running at the same time.              *)
(***************************************************************************)
\* C30: two pollers interleaved on two RequestReportResponse objects with
\* different report request ids do not interfere: each filters its status
\* queries by its own id, holds the latest record of its own request, ends
\* with the outcome of its own request, and stores, fetches and returns only
\* the generated report of its own request.
C30_NoInterference ==
    \A i \in InstanceIds :
        LET s == instances[i] IN
        s.op # "none" =>
            /\ s.queried \subseteq {s.job}
            /\ \A k \in InstanceIds \ {i} : instances[k].job # s.job
            /\ s.npolls > 0 =>
                  /\ served[s.job] # NoRecord
                  /\ s.status = served[s.job].status
                  /\ s.done = served[s.job].completed
                  /\ s.report_id = served[s.job].id
            /\ s.report_id \in {None, GeneratedReportId(s.job)}
            /\ s.self_report_id \in {"", None, GeneratedReportId(s.job)}
            /\ s.fetched \subseteq {GeneratedReportId(s.job)}
            /\ (s.pc = "end" /\ s.op = "wait" /\ s.outcome.exc \in {None, "ValueError"}) =>
                  s.outcome = (IF served[s.job].status = DONE
                               THEN Returned(served[s.job].id)
                               ELSE JobFailure(s.job, served[s.job].status))
            /\ (s.pc = "end" /\ s.outcome.kind = "return" /\ s.op = "wait_and_download") =>
                  s.outcome = Returned(ReportPayload(GeneratedReportId(s.job)))

\* One poller has returned the report id of its request after two polls
\* while the other, on another request, has fetched its own report.
C30_Witness ==
    /\ instances["a"].op = "wait"
    /\ instances["a"].job = "j2"
    /\ instances["a"].npolls = 2
    /\ instances["a"].outcome = Returned("g2")
    /\ instances["b"].op = "wait_and_download"
    /\ instances["b"].job = "j1"
    /\ instances["b"].npolls = 2
    /\ instances["b"].pc = "w_ack"
    /\ instances["b"].fetched = {"g1"}

====
